---- MODULE Spec2Model ----
(***************************************************************************)
(* PayOpti (src/pay_opti.py): the terms interpreter, the business-value    *)
(* model, the cash-constrained allocator and the mode comparer.            *)
(*                                                                         *)
(* Numbers.  Python floats are modelled as exact rationals <<n, d>> in     *)
(* lowest terms with d > 0; money is counted in units of 50,000.  Texts are    *)
(* sequences of one-character strings.  Dates are <<year, month, day>>.    *)
(***************************************************************************)
EXTENDS Integers, Sequences, FiniteSets, TLC

VARIABLES
    \* ---- the terms interpreter (parse_payment_terms_with_ai) ----
    raw_terms,        \* the text handed to the interpreter
    client,           \* AIIntegrator.client is not None
    ai_response,      \* what the collaborator does when asked to parse terms
    terms_pc,         \* "idle" | "call" | "done"
    terms_out,        \* the PaymentTerms returned, or the exception raised
    \* ---- the business value model (calculate_enhanced_business_value) ----
    bv_in,            \* invoice, terms, vendor snapshot, parameters, clock
    bv_pc,            \* "idle" | "vrs" | "call" | "returned"
    bv_out,           \* the BusinessValue returned
    vrs_out,          \* the VRSComponents returned by calculate_vrs
    \* ---- PayOptiSystem ----
    database,         \* self.database, the JSON files by key
    \* ---- compare_modes / generate_payment_sequence ----
    modes,            \* the list handed to compare_modes
    run_mode,         \* the mode handed to generate_payment_sequence
    clock,            \* datetime.now()
    analysis_response,\* what the collaborator does when asked to analyse a vendor
    pc,               \* where the call is: "start", "score", "admit", "loop", "ran", ...
    mode_idx,         \* position of `for mode in modes`
    mode_config,      \* locals of generate_payment_sequence ...
    usable_cash,
    scored_invoices,
    sorted_invoices,
    payment_sequence,
    remaining_cash,
    run_out,          \* what generate_payment_sequence returned or raised
    mode_results,     \* dict of compare_modes, in insertion order
    compare_out,      \* what compare_modes returned or raised
    \* ---- _load_all_data ----
    files,            \* the data directory: each required file is ok, missing or invalid
    load_pc,          \* "idle" | "loop" | "returned" | "raised"
    file_idx,         \* position of `for filename in required_files`
    key,              \* the local `key` of _load_all_data, Unbound until assigned
    self_config       \* self.config as _load_all_data leaves it

UnitVars == <<raw_terms, terms_pc, terms_out, bv_in, bv_pc, bv_out, vrs_out>>

PipelineVars == <<modes, run_mode, clock, analysis_response, pc, mode_idx, mode_config,
                  usable_cash, scored_invoices, sorted_invoices, payment_sequence,
                  remaining_cash, run_out, mode_results, compare_out>>

vars == <<raw_terms, client, ai_response, terms_pc, terms_out, bv_in, bv_pc, bv_out,
          vrs_out, database, modes, run_mode, clock, analysis_response, pc, mode_idx, mode_config,
          usable_cash, scored_invoices, sorted_invoices, payment_sequence,
          remaining_cash, run_out, mode_results, compare_out, files, load_pc, file_idx, key,
          self_config>>

LoadVars == <<files, load_pc, file_idx, key, self_config>>

None == "None"

(***************************************************************************)
(* Exact arithmetic on rationals <<n, d>>.                                 *)
(***************************************************************************)
Abs(x) == IF x < 0 THEN -x ELSE x

RECURSIVE Gcd(_, _)
Gcd(a, b) == IF b = 0 THEN a ELSE Gcd(b, a % b)

Norm(n, d) ==
    LET g == Gcd(Abs(n), Abs(d))
        s == IF d < 0 THEN -1 ELSE 1
    IN  <<s * (n \div g), s * (d \div g)>>

R(k) == <<k, 1>>

RMul(x, y) ==
    LET g1 == Gcd(Abs(x[1]), y[2])
        g2 == Gcd(Abs(y[1]), x[2])
    IN  Norm((x[1] \div g1) * (y[1] \div g2), (x[2] \div g2) * (y[2] \div g1))

RAdd(x, y) ==
    LET g == Gcd(x[2], y[2])
    IN  Norm(x[1] * (y[2] \div g) + y[1] * (x[2] \div g), (x[2] \div g) * y[2])

RNeg(x) == <<-x[1], x[2]>>
RSub(x, y) == RAdd(x, RNeg(y))
RDiv(x, y) == RMul(x, Norm(y[2], y[1]))

\* x < y for non-negative fractions a/b, c/d, by the continued-fraction
\* expansion, so that no cross product is ever formed
RECURSIVE FracLess(_, _, _, _)
FracLess(a, b, c, d) ==
    LET q1 == a \div b
        q2 == c \div d
        r1 == a % b
        r2 == c % d
    IN  IF q1 # q2 THEN q1 < q2
        ELSE IF r2 = 0 THEN FALSE
        ELSE IF r1 = 0 THEN TRUE
        ELSE FracLess(d, r2, b, r1)

RLess(x, y) ==
    IF x[1] < 0 /\ y[1] >= 0 THEN TRUE
    ELSE IF x[1] >= 0 /\ y[1] < 0 THEN FALSE
    ELSE IF x[1] >= 0 THEN FracLess(x[1], x[2], y[1], y[2])
    ELSE FracLess(-y[1], y[2], -x[1], x[2])

RLeq(x, y) == x = y \/ RLess(x, y)
RMax(x, y) == IF RLess(x, y) THEN y ELSE x
RMin(x, y) == IF RLess(y, x) THEN y ELSE x

\* int(x) of a float: truncation toward zero
RTrunc(x) == IF x[1] >= 0 THEN x[1] \div x[2] ELSE -((-x[1]) \div x[2])

(***************************************************************************)
(* dict.get(key, default) on a record read from JSON.                      *)
(***************************************************************************)
Get(d, k, default) == IF k \in DOMAIN d THEN d[k] ELSE default

EmptyDict == [k \in {} |-> None]

(***************************************************************************)
(* Texts.                                                                  *)
(***************************************************************************)
Digits == {"0", "1", "2", "3", "4", "5", "6", "7", "8", "9"}
Spaces == {" "}
\* the character class [\/within] of the discount pattern
SepClass == {"/", "w", "i", "t", "h", "n"}

DigitValue(c) ==
    CASE c = "0" -> 0 [] c = "1" -> 1 [] c = "2" -> 2 [] c = "3" -> 3
      [] c = "4" -> 4 [] c = "5" -> 5 [] c = "6" -> 6 [] c = "7" -> 7
      [] c = "8" -> 8 [] c = "9" -> 9

\* str.lower() on the letters the texts of the model use
LowerChar(c) ==
    CASE c = "N" -> "n" [] c = "E" -> "e" [] c = "T" -> "t"
      [] c = "D" -> "d" [] c = "A" -> "a" [] c = "Y" -> "y"
      [] OTHER -> c

Lower(s) == [i \in 1..Len(s) |-> LowerChar(s[i])]

\* int("0045") = 45
RECURSIVE IntOf(_)
IntOf(ds) ==
    IF ds = <<>> THEN 0
    ELSE 10 * IntOf(SubSeq(ds, 1, Len(ds) - 1)) + DigitValue(ds[Len(ds)])

RECURSIVE Pow10(_)
Pow10(k) == IF k = 0 THEN 1 ELSE 10 * Pow10(k - 1)

\* length of the longest run of characters of class cls starting at s[i]
RECURSIVE RunLen(_, _, _)
RunLen(s, i, cls) ==
    IF i <= Len(s) /\ s[i] \in cls THEN 1 + RunLen(s, i + 1, cls) ELSE 0

\* float("2.50") = 2.5, float("3") = 3.0
FloatOf(t) ==
    LET ip == RunLen(t, 1, Digits)
    IN  IF ip = Len(t) THEN R(IntOf(t))
        ELSE LET fr == SubSeq(t, ip + 2, Len(t))
             IN  Norm(IntOf(SubSeq(t, 1, ip)) * Pow10(Len(fr)) + IntOf(fr),
                      Pow10(Len(fr)))

(***************************************************************************)
(* The two patterns of the deterministic parser, as re.search applies      *)
(* them: the leftmost start at which the pattern matches, and at that      *)
(* start the first match in backtracking order (greedy quantifiers).       *)
(***************************************************************************)
NoMatch == [found |-> FALSE, g1 |-> <<>>, g2 |-> <<>>]

\* %?\s*[\/within]*\s* from position pos, then a digit: the position of the
\* digit, or 0.  Each class is disjoint from the next, so the greedy runs are
\* the only way through.
SepThenDigit(s, pos) ==
    LET try(q) == LET k == RunLen(s, q, Spaces)
                      m == RunLen(s, q + k, SepClass)
                      j == RunLen(s, q + k + m, Spaces)
                      p == q + k + m + j
                  IN  IF p <= Len(s) /\ s[p] \in Digits THEN p ELSE 0
        a == IF pos <= Len(s) /\ s[pos] = "%" THEN pos + 1 ELSE pos
        t == try(a)
    IN  IF t # 0 THEN t ELSE try(pos)

\* (\d+(?:\.\d+)?) at st taking d1 digits and f fraction digits (f = 0: no
\* fraction), followed by the rest of the pattern
DiscountTry(s, st, d1, f) ==
    LET e1 == st + d1 + (IF f > 0 THEN 1 + f ELSE 0)
        p  == SepThenDigit(s, e1)
    IN  IF p = 0 THEN NoMatch
        ELSE [found |-> TRUE,
              g1 |-> SubSeq(s, st, e1 - 1),
              g2 |-> SubSeq(s, p, p + RunLen(s, p, Digits) - 1)]

\* the candidates for group 1 at st in backtracking order: all the digits
\* with the longest fraction first, then shorter fractions, then no fraction,
\* then fewer digits
RECURSIVE DiscountFirst(_, _, _, _)
DiscountFirst(s, st, d1, f) ==
    LET m == DiscountTry(s, st, d1, f)
    IN  IF m.found THEN m
        ELSE IF f > 0 THEN DiscountFirst(s, st, d1, f - 1)
        ELSE IF d1 > 1 THEN DiscountFirst(s, st, d1 - 1, 0)
        ELSE NoMatch

DiscountAt(s, st) ==
    LET d == RunLen(s, st, Digits)
        f == IF st + d <= Len(s) /\ s[st + d] = "." THEN RunLen(s, st + d + 1, Digits) ELSE 0
    IN  IF d = 0 THEN NoMatch ELSE DiscountFirst(s, st, d, f)

\* re.search(r'(\d+(?:\.\d+)?)%?\s*[\/within]*\s*(\d+)', s)
RECURSIVE DiscountSearch(_, _)
DiscountSearch(s, st) ==
    LET m == DiscountAt(s, st)
    IN  IF st > Len(s) THEN NoMatch
        ELSE IF m.found THEN m
        ELSE DiscountSearch(s, st + 1)

\* net\s*(\d+) | (\d+)\s*days? at st
NetAt(s, st) ==
    LET isNet == st + 2 <= Len(s) /\ SubSeq(s, st, st + 2) = <<"n", "e", "t">>
        k  == RunLen(s, st + 3, Spaces)
        n1 == RunLen(s, st + 3 + k, Digits)
        d  == RunLen(s, st, Digits)
        j  == RunLen(s, st + d, Spaces)
        q  == st + d + j
    IN  IF isNet /\ n1 > 0
        THEN [found |-> TRUE, g1 |-> SubSeq(s, st + 3 + k, st + 3 + k + n1 - 1), g2 |-> <<>>]
        ELSE IF d > 0 /\ q + 2 <= Len(s) /\ SubSeq(s, q, q + 2) = <<"d", "a", "y">>
        THEN [found |-> TRUE, g1 |-> <<>>, g2 |-> SubSeq(s, st, st + d - 1)]
        ELSE NoMatch

\* re.search(r'net\s*(\d+)|(\d+)\s*days?', s)
RECURSIVE NetSearch(_, _)
NetSearch(s, st) ==
    LET m == NetAt(s, st)
    IN  IF st > Len(s) THEN NoMatch
        ELSE IF m.found THEN m
        ELSE NetSearch(s, st + 1)

(***************************************************************************)
(* AIIntegrator._fallback_payment_terms_parse and                          *)
(* PayOptiSystem._simple_terms_parser.                                     *)
(***************************************************************************)
\* a number read from JSON or held in a dict, and a value float() rejects
\* (a word, null, a list)
JNum(x) == [num |-> TRUE, v |-> x]
JBad == [num |-> FALSE, v |-> <<0, 1>>]

\* a parser that calls a zero rate a discount
PaymentTypeOf_GeqZero(discount_rate) ==
    IF RLeq(R(0), discount_rate) THEN "early_discount" ELSE "net_term"

PaymentTypeOf(discount_rate) ==
    IF RLess(R(0), discount_rate) THEN "early_discount" ELSE "net_term"

\* the numbers both parsers take from the two matches
TermsFromMatches(discount_match, net_match) ==
    [discount_rate |-> IF discount_match.found THEN FloatOf(discount_match.g1) ELSE R(0),
     discount_days |-> IF discount_match.found THEN IntOf(discount_match.g2) ELSE 0,
     net_days      |-> IF net_match.found
                       THEN IntOf(IF net_match.g1 # <<>> THEN net_match.g1 ELSE net_match.g2)
                       ELSE 30]

ExtractTerms(terms_lower) ==
    TermsFromMatches(DiscountSearch(terms_lower, 1), NetSearch(terms_lower, 1))

FallbackDict(x) ==
    [payment_type  |-> PaymentTypeOf(x.discount_rate),
     discount_rate |-> JNum(x.discount_rate),
     discount_days |-> JNum(R(x.discount_days)),
     net_days      |-> JNum(R(x.net_days)),
     late_fee_rate |-> JNum(R(0)),
     confidence    |-> JNum(<<7, 10>>)]

_fallback_payment_terms_parse(raw) == FallbackDict(ExtractTerms(Lower(raw)))

SimpleTerms(x) ==
    [payment_type  |-> PaymentTypeOf(x.discount_rate),
     discount_rate |-> x.discount_rate,
     discount_days |-> x.discount_days,
     net_days      |-> x.net_days,
     late_fee_rate |-> R(0),
     confidence    |-> <<7, 10>>]

_simple_terms_parser(raw) == SimpleTerms(ExtractTerms(Lower(raw)))

(***************************************************************************)
(* The external-assisted path.  A call of the collaborator either raises   *)
(* (connection error, timeout, empty choices) or returns a text, which     *)
(* after the cleaning of _parse_payment_terms_response is no JSON          *)
(* ("notjson", also a None content), JSON that is no object ("nondict"),   *)
(* or a JSON object ("dict", with its value).                              *)
(***************************************************************************)
AIRaises     == [call |-> "raises",  kind |-> "none",    value |-> EmptyDict]
AINotJson    == [call |-> "returns", kind |-> "notjson", value |-> EmptyDict]
AINonDict    == [call |-> "returns", kind |-> "nondict", value |-> EmptyDict]
AIDict(d)    == [call |-> "returns", kind |-> "dict",    value |-> d]

_parse_payment_terms_response(resp) ==
    IF resp.kind = "notjson"
    THEN [isdict |-> TRUE,
          value  |-> [payment_type  |-> "net_term",
                      discount_rate |-> JNum(R(0)),
                      discount_days |-> JNum(R(0)),
                      net_days      |-> JNum(R(30)),
                      late_fee_rate |-> JNum(R(0)),
                      confidence    |-> JNum(<<1, 2>>)]]
    ELSE [isdict |-> resp.kind = "dict", value |-> resp.value]

parse_payment_terms_ai(raw, cl, resp) ==
    IF ~cl THEN [isdict |-> TRUE, value |-> _fallback_payment_terms_parse(raw)]
    ELSE IF resp.call = "raises" THEN [isdict |-> TRUE, value |-> _fallback_payment_terms_parse(raw)]
    ELSE _parse_payment_terms_response(resp)

NoTerms == [payment_type |-> None, discount_rate |-> R(0), discount_days |-> 0,
            net_days |-> 0, late_fee_rate |-> R(0), confidence |-> R(0)]

Returned(t) == [status |-> "returned", error |-> "none", terms |-> t]
Raised(e)   == [status |-> "raised", error |-> e, terms |-> NoTerms]

\* PaymentTerms(payment_type=parsed_data.get(...), discount_rate=float(...), ...)
PaymentTermsOf(isdict, d) ==
    LET rate   == Get(d, "discount_rate", JNum(R(0)))
        ddays  == Get(d, "discount_days", JNum(R(0)))
        ndays  == Get(d, "net_days", JNum(R(30)))
        fee    == Get(d, "late_fee_rate", JNum(R(0)))
        conf   == Get(d, "confidence", JNum(<<4, 5>>))
    IN  IF ~isdict THEN Raised("AttributeError")
        ELSE IF ~(rate.num /\ ddays.num /\ ndays.num /\ fee.num /\ conf.num)
        THEN Raised("ValueError")
        ELSE Returned([payment_type  |-> Get(d, "payment_type", "net_term"),
                       discount_rate |-> rate.v,
                       discount_days |-> RTrunc(ddays.v),
                       net_days      |-> RTrunc(ndays.v),
                       late_fee_rate |-> fee.v,
                       confidence    |-> conf.v])

PaymentTermsOfParsed(parsed) == PaymentTermsOf(parsed.isdict, parsed.value)

parse_payment_terms_with_ai(raw, cl, resp) ==
    PaymentTermsOfParsed(parse_payment_terms_ai(raw, cl, resp))

(***************************************************************************)
(* Dates.  datetime.strptime(text, '%Y-%m-%d') of a text <<y, m, d>> is    *)
(* the day's ordinal counted from 1 January 2023; strftime is the  *)
(* inverse.  The clock datetime.now() is [day |-> ordinal, hour |-> 0..23].*)
(***************************************************************************)
IsLeap(y) == (y % 4 = 0 /\ y % 100 # 0) \/ y % 400 = 0

DaysInMonth(y, m) ==
    IF m = 2 THEN (IF IsLeap(y) THEN 29 ELSE 28)
    ELSE IF m \in {4, 6, 9, 11} THEN 30 ELSE 31

DaysInYear(y) == IF IsLeap(y) THEN 366 ELSE 365

RECURSIVE DaysBeforeYear(_)
DaysBeforeYear(y) == IF y <= 2023 THEN 0 ELSE DaysBeforeYear(y - 1) + DaysInYear(y - 1)

RECURSIVE DaysBeforeMonth(_, _)
DaysBeforeMonth(y, m) == IF m <= 1 THEN 0 ELSE DaysBeforeMonth(y, m - 1) + DaysInMonth(y, m - 1)

strptime(t) == DaysBeforeYear(t[1]) + DaysBeforeMonth(t[1], t[2]) + (t[3] - 1)

RECURSIVE YearOf(_, _)
YearOf(ord, y) == IF ord < DaysBeforeYear(y + 1) THEN y ELSE YearOf(ord, y + 1)

RECURSIVE MonthOf(_, _, _)
MonthOf(rest, y, m) == IF rest < DaysBeforeMonth(y, m + 1) THEN m ELSE MonthOf(rest, y, m + 1)

strftime(ord) ==
    LET y    == YearOf(ord, 2023)
        rest == ord - DaysBeforeYear(y)
        m    == MonthOf(rest, y, 1)
    IN  <<y, m, rest - DaysBeforeMonth(y, m) + 1>>

\* (deadline - datetime.now()).days: timedelta.days is the floor of the
\* difference in days
DaysUntil(deadline, now) == ((deadline - now.day) * 24 - now.hour) \div 24

(***************************************************************************)
(* PayOptiSystem._calculate_spend_percentile and calculate_vrs.            *)
(***************************************************************************)
\* a percentile that counts only the vendors strictly below
_calculate_spend_percentile_Exclusive(db, vendor_id, annual_spend) ==
    LET all_vendors == Get(db, "vendor_master", EmptyDict)
        spend(v)    == Get(Get(all_vendors[v], "contract_details", EmptyDict),
                           "annual_contract_value", 0)
        vendors_below == Cardinality({v \in DOMAIN all_vendors : spend(v) < annual_spend})
    IN  IF DOMAIN all_vendors = {} THEN R(50)
        ELSE RMul(Norm(vendors_below, Cardinality(DOMAIN all_vendors)), R(100))

_calculate_spend_percentile(db, vendor_id, annual_spend) ==
    LET all_vendors == Get(db, "vendor_master", EmptyDict)
        spend(v)    == Get(Get(all_vendors[v], "contract_details", EmptyDict),
                           "annual_contract_value", 0)
        vendors_below == Cardinality({v \in DOMAIN all_vendors : spend(v) <= annual_spend})
    IN  IF DOMAIN all_vendors = {} THEN R(50)
        ELSE RMul(Norm(vendors_below, Cardinality(DOMAIN all_vendors)), R(100))

calculate_vrs(db, vendor_id) ==
    LET vendor_profile     == Get(db.vendor_master, vendor_id, EmptyDict)
        payment_history    == Get(db.payment_history, vendor_id, EmptyDict)
        communication_data == Get(db.communication_logs, vendor_id, EmptyDict)
        performance_data   == Get(db.performance_metrics, vendor_id, EmptyDict)
        annual_spend       == Get(Get(vendor_profile, "contract_details", EmptyDict),
                                  "annual_contract_value", 0)
        total_value_score  == _calculate_spend_percentile(db, vendor_id, annual_spend)
        transaction_summary == Get(payment_history, "transaction_summary", EmptyDict)
        on_time_payments   == Get(transaction_summary, "invoices_paid_on_time", 0)
        total_payments     == Get(transaction_summary, "total_invoices", 1)
        repayment_score    == IF total_payments > 0
                              THEN RMul(Norm(on_time_payments, total_payments), R(100))
                              ELSE R(50)
        hard_factors_score == RAdd(RMul(total_value_score, <<7, 10>>),
                                   RMul(repayment_score, <<3, 10>>))
        years_in_business  == Get(Get(vendor_profile, "external_data", EmptyDict),
                                  "years_in_business", 5)
        longevity_score    == RMin(R(100), RMul(Norm(years_in_business, 15), R(100)))
        reliability_score  == Get(Get(performance_data, "operational_metrics", EmptyDict),
                                  "on_time_delivery_rate", R(85))
        friction_emails    == Get(Get(communication_data, "email_metrics", EmptyDict),
                                  "friction_emails", 5)
        communication_score == RMax(R(0), R(100 - friction_emails * 2))
        soft_factors_score == RDiv(RAdd(RAdd(longevity_score, reliability_score),
                                        communication_score), R(3))
        final_vrs          == RAdd(RMul(hard_factors_score, <<3, 5>>),
                                   RMul(soft_factors_score, <<2, 5>>))
    IN  [hard_factors_score  |-> hard_factors_score,
         soft_factors_score  |-> soft_factors_score,
         final_vrs           |-> final_vrs,
         total_value_score   |-> total_value_score,
         repayment_score     |-> repayment_score,
         longevity_score     |-> longevity_score,
         reliability_score   |-> reliability_score,
         communication_score |-> communication_score]

(***************************************************************************)
(* PayOptiSystem.calculate_enhanced_business_value.                        *)
(***************************************************************************)
DefaultImpactMultipliers ==
    [critical |-> R(3), high |-> R(2), medium |-> <<3, 2>>, low |-> R(1)]

DefaultRiskMultipliers ==
    [very_low |-> <<6, 5>>, low |-> R(1), medium |-> <<17, 20>>, high |-> <<7, 10>>,
     very_high |-> <<1, 2>>]

DefaultMarketMultipliers ==
    [market_leader |-> <<6, 5>>, major_player |-> <<11, 10>>, standard |-> R(1),
     follower |-> <<9, 10>>]

\* buckets that are exclusive on the upper bound
RiskMultiplier_ExclusiveUpper(risk_score, risk_thresholds) ==
    IF risk_score < 20 THEN Get(risk_thresholds, "very_low", <<6, 5>>)
    ELSE IF risk_score < 40 THEN Get(risk_thresholds, "low", R(1))
    ELSE IF risk_score < 60 THEN Get(risk_thresholds, "medium", <<17, 20>>)
    ELSE IF risk_score < 80 THEN Get(risk_thresholds, "high", <<7, 10>>)
    ELSE Get(risk_thresholds, "very_high", <<1, 2>>)

RiskMultiplier(risk_score, risk_thresholds) ==
    IF risk_score <= 20 THEN Get(risk_thresholds, "very_low", <<6, 5>>)
    ELSE IF risk_score <= 40 THEN Get(risk_thresholds, "low", R(1))
    ELSE IF risk_score <= 60 THEN Get(risk_thresholds, "medium", <<17, 20>>)
    ELSE IF risk_score <= 80 THEN Get(risk_thresholds, "high", <<7, 10>>)
    ELSE Get(risk_thresholds, "very_high", <<1, 2>>)

\* an urgency table that expires a window only once the deadline is past
UrgencyMultiplier_StrictExpiry(days_to_deadline) ==
    IF days_to_deadline < 0 THEN R(0)
    ELSE IF days_to_deadline <= 3 THEN <<3, 2>>
    ELSE IF days_to_deadline <= 7 THEN <<6, 5>>
    ELSE IF days_to_deadline <= 14 THEN <<11, 10>>
    ELSE R(1)

UrgencyMultiplier(days_to_deadline) ==
    IF days_to_deadline <= 0 THEN R(0)
    ELSE IF days_to_deadline <= 3 THEN <<3, 2>>
    ELSE IF days_to_deadline <= 7 THEN <<6, 5>>
    ELSE IF days_to_deadline <= 14 THEN <<11, 10>>
    ELSE R(1)

\* a benefit that is not floored at zero
NetFinancialBenefit_NoFloor(invoice_amount, payment_terms, wacc) ==
    LET discount_value   == RMul(R(invoice_amount), RDiv(payment_terms.discount_rate, R(100)))
        days_early       == IF payment_terms.net_days - payment_terms.discount_days > 0
                            THEN payment_terms.net_days - payment_terms.discount_days ELSE 0
        opportunity_cost == RMul(RMul(R(invoice_amount), RDiv(wacc, R(365))), R(days_early))
    IN  RSub(discount_value, opportunity_cost)

\* a benefit whose cost of capital runs over the whole net term
NetFinancialBenefit_FullTerm(invoice_amount, payment_terms, wacc) ==
    LET discount_value   == RMul(R(invoice_amount), RDiv(payment_terms.discount_rate, R(100)))
        opportunity_cost == RMul(RMul(R(invoice_amount), RDiv(wacc, R(365))),
                                 R(payment_terms.net_days))
    IN  RMax(R(0), RSub(discount_value, opportunity_cost))

NetFinancialBenefit(invoice_amount, payment_terms, wacc) ==
    LET discount_value   == RMul(R(invoice_amount), RDiv(payment_terms.discount_rate, R(100)))
        days_early       == IF payment_terms.net_days - payment_terms.discount_days > 0
                            THEN payment_terms.net_days - payment_terms.discount_days ELSE 0
        opportunity_cost == RMul(RMul(R(invoice_amount), RDiv(wacc, R(365))), R(days_early))
    IN  RMax(R(0), RSub(discount_value, opportunity_cost))

calculate_enhanced_business_value(db, invoice, vendor_id, payment_terms, vrs_components, now) ==
    LET financial_params == Get(db, "financial_parameters", EmptyDict)
        wacc             == Get(financial_params, "wacc", <<2, 25>>)
        net_financial_benefit == NetFinancialBenefit(invoice.invoice_amount, payment_terms, wacc)
        vendor_data      == Get(db.vendor_master, vendor_id, EmptyDict)
        performance_data == Get(db.performance_metrics, vendor_id, EmptyDict)
        market_data      == Get(db.market_intelligence, vendor_id, EmptyDict)
        business_impact  == Get(Get(vendor_data, "strategic_classification", EmptyDict),
                                "business_impact", "medium")
        impact_multipliers == Get(financial_params, "business_impact_multipliers",
                                  DefaultImpactMultipliers)
        business_impact_multiplier == Get(impact_multipliers, business_impact, <<3, 2>>)
        years_as_vendor  == Get(Get(vendor_data, "relationship_metrics", EmptyDict),
                                "years_as_vendor", 1)
        relationship_multiplier == RMin(R(2), RAdd(R(1), Norm(years_as_vendor, 10)))
        risk_score       == Get(Get(performance_data, "risk_indicators", EmptyDict),
                                "financial_stress_score", 50)
        risk_thresholds  == Get(financial_params, "risk_multipliers", DefaultRiskMultipliers)
        risk_multiplier  == RiskMultiplier(risk_score, risk_thresholds)
        vrs_multiplier   == RAdd(<<4, 5>>, RMul(RDiv(vrs_components.final_vrs, R(100)), <<2, 5>>))
        issue_date       == strptime(invoice.issue_date)
        discount_deadline == issue_date + payment_terms.discount_days
        days_to_deadline == DaysUntil(discount_deadline, now)
        urgency_multiplier == UrgencyMultiplier(days_to_deadline)
        market_position  == Get(market_data, "market_position", "unknown")
        market_multipliers == Get(financial_params, "market_multipliers",
                                  DefaultMarketMultipliers)
        market_multiplier == Get(market_multipliers, market_position, R(1))
        final_business_value ==
            RMul(RMul(RMul(RMul(RMul(RMul(net_financial_benefit,
                                          business_impact_multiplier),
                                     relationship_multiplier),
                                risk_multiplier),
                           vrs_multiplier),
                      urgency_multiplier),
                 market_multiplier)
    IN  [net_financial_benefit      |-> net_financial_benefit,
         business_impact_multiplier |-> business_impact_multiplier,
         relationship_multiplier    |-> relationship_multiplier,
         risk_multiplier            |-> risk_multiplier,
         vrs_multiplier             |-> vrs_multiplier,
         urgency_multiplier         |-> urgency_multiplier,
         market_multiplier          |-> market_multiplier,
         final_business_value       |-> final_business_value]

(***************************************************************************)
(* The data.  Money is in units of 50,000.  Vendor V1 is a critical,       *)
(* long-standing supplier, V2 a low-impact one with no payment history,    *)
(* and V3 is named by invoices but unknown to every file.                  *)
(***************************************************************************)
VendorMaster ==
    [V1 |-> [basic_info |-> [display_name |-> "SteelCore"],
             contract_details |-> [annual_contract_value |-> 72],
             strategic_classification |-> [business_impact |-> "critical"],
             relationship_metrics |-> [years_as_vendor |-> 5],
             external_data |-> [years_in_business |-> 30]],
     V2 |-> [contract_details |-> [annual_contract_value |-> 4],
             strategic_classification |-> [business_impact |-> "low"],
             relationship_metrics |-> [years_as_vendor |-> 2],
             external_data |-> [years_in_business |-> 3]]]

PaymentHistory ==
    [V1 |-> [transaction_summary |-> [invoices_paid_on_time |-> 4, total_invoices |-> 4]],
     V2 |-> [transaction_summary |-> [invoices_paid_on_time |-> 0, total_invoices |-> 0]]]

CommunicationLogs ==
    [V1 |-> [email_metrics |-> [friction_emails |-> 0]],
     V2 |-> [email_metrics |-> [friction_emails |-> 25]]]

PerformanceMetrics ==
    [V1 |-> [operational_metrics |-> [on_time_delivery_rate |-> <<100, 1>>],
             risk_indicators |-> [financial_stress_score |-> 20]],
     V2 |-> [operational_metrics |-> [on_time_delivery_rate |-> <<80, 1>>],
             risk_indicators |-> [financial_stress_score |-> 85]]]

MarketIntelligence ==
    [V1 |-> [market_position |-> "market_leader"],
     V2 |-> [market_position |-> "follower"]]

\* financial_parameters.json: absent, a zero cost of capital, or the tables
\* of the sample data
FinancialParameters ==
    {EmptyDict,
     [wacc |-> <<0, 1>>],
     [wacc |-> <<73, 1000>>,
      business_impact_multipliers |-> [critical |-> R(4), high |-> <<5, 2>>,
                                       medium |-> <<3, 2>>, low |-> <<4, 5>>],
      risk_multipliers |-> [very_low |-> <<13, 10>>, very_high |-> <<3, 10>>]]}

Database(fp, invoices_input, organization_config) ==
    [invoices_input       |-> invoices_input,
     vendor_master        |-> VendorMaster,
     payment_history      |-> PaymentHistory,
     communication_logs   |-> CommunicationLogs,
     performance_metrics  |-> PerformanceMetrics,
     market_intelligence  |-> MarketIntelligence,
     organization_config  |-> organization_config,
     financial_parameters |-> fp]

VendorIds == {"V1", "V2", "V3"}

(***************************************************************************)
(* The terms interpreter on its own: one call of                           *)
(* parse_payment_terms_with_ai, or of _simple_terms_parser, on a text.     *)
(***************************************************************************)
Txt_net  == <<" ", "n", "e", "t", " ">>
Txt_Net  == <<"N", "e", "t", " ">>
Txt_days == <<" ", "d", "a", "y", "s">>

RateTexts == {<<"3">>, <<"0">>, <<"2", ".", "5">>, <<"1", "0">>}
DayTexts  == {<<"1", "5">>, <<"1", "0">>, <<"0">>}
NetTexts  == {<<"4", "5">>, <<"3", "0">>, <<"7">>}

\* '<r>/<d> net <n>'
FormText(r, d, n) == r \o <<"/">> \o d \o Txt_net \o n

RawTexts ==
    {h \o sp \o d \o w \o n \o t :
        h  \in RateTexts \cup {<<>>},
        sp \in {<<>>, <<"/">>, <<"%", " ">>},
        d  \in DayTexts \cup {<<>>},
        w  \in {<<>>, Txt_net, Txt_Net, <<" ">>, <<"c", "o", "d">>},
        n  \in NetTexts \cup {<<>>},
        t  \in {<<>>, Txt_days}}

\* what the collaborator may answer with
AIDicts ==
    {EmptyDict,
     [payment_type |-> "early_discount", discount_rate |-> JNum(R(2)),
      discount_days |-> JNum(R(10)), net_days |-> JNum(R(30)),
      late_fee_rate |-> JNum(R(0)), confidence |-> JNum(<<19, 20>>)],
     [payment_type |-> "early_discount", discount_rate |-> JNum(<<5, 2>>),
      discount_days |-> JNum(<<21, 2>>)],
     [payment_type |-> "net_term", discount_rate |-> JBad, net_days |-> JNum(R(30))],
     [payment_type |-> "net_term", net_days |-> JBad]}

AIResponses == {AIRaises, AINotJson, AINonDict} \cup {AIDict(d) : d \in AIDicts}

NoBV == [net_financial_benefit |-> R(0), business_impact_multiplier |-> R(0),
         relationship_multiplier |-> R(0), risk_multiplier |-> R(0),
         vrs_multiplier |-> R(0), urgency_multiplier |-> R(0),
         market_multiplier |-> R(0), final_business_value |-> R(0)]

NoVrs == [hard_factors_score |-> R(0), soft_factors_score |-> R(0), final_vrs |-> R(0),
          total_value_score |-> R(0), repayment_score |-> R(0), longevity_score |-> R(0),
          reliability_score |-> R(0), communication_score |-> R(0)]

NoInvoice == [invoice_amount |-> 0, issue_date |-> <<2024, 1, 1>>]

NoClock == [day |-> 0, hour |-> 0]

TermsIdle ==
    /\ raw_terms = <<>>
    /\ client = FALSE
    /\ ai_response = AIRaises
    /\ terms_pc = "idle"
    /\ terms_out = [fn |-> "none"] @@ Raised("none")

Unbound == "Unbound"

LoadIdle ==
    /\ files = <<>>
    /\ load_pc = "idle"
    /\ file_idx = 1
    /\ key = Unbound
    /\ self_config = EmptyDict

PipelineIdle ==
    /\ modes = <<>>
    /\ run_mode = None
    /\ clock = NoClock
    /\ analysis_response = AIRaises
    /\ pc = "idle"
    /\ mode_idx = 1
    /\ mode_config = EmptyDict
    /\ usable_cash = R(0)
    /\ scored_invoices = <<>>
    /\ sorted_invoices = <<>>
    /\ payment_sequence = <<>>
    /\ remaining_cash = R(0)
    /\ run_out = [status |-> "none", error |-> None, results |-> EmptyDict]
    /\ mode_results = <<>>
    /\ compare_out = None

BVIdle ==
    /\ bv_in = [invoice |-> NoInvoice, vendor_id |-> "V3", payment_terms |-> NoTerms,
                now |-> NoClock]
    /\ bv_pc = "idle"
    /\ bv_out = NoBV
    /\ vrs_out = NoVrs

InitTerms ==
    /\ raw_terms \in RawTexts
    /\ client \in BOOLEAN
    /\ ai_response \in AIResponses
    /\ terms_pc = "call"
    /\ terms_out = [fn |-> "none"] @@ Raised("none")
    /\ BVIdle
    /\ PipelineIdle
    /\ LoadIdle
    /\ database = Database(EmptyDict, EmptyDict, EmptyDict)

CallParsePaymentTermsWithAI ==
    /\ terms_pc = "call"
    /\ terms_pc' = "done"
    /\ terms_out' = [fn |-> "parse_payment_terms_with_ai"]
                    @@ parse_payment_terms_with_ai(raw_terms, client, ai_response)
    /\ UNCHANGED <<raw_terms, client, ai_response, bv_in, bv_pc, bv_out, vrs_out, database,
                   PipelineVars, LoadVars>>

CallSimpleTermsParser ==
    /\ terms_pc = "call"
    /\ terms_pc' = "done"
    /\ terms_out' = [fn |-> "_simple_terms_parser"] @@ Returned(_simple_terms_parser(raw_terms))
    /\ UNCHANGED <<raw_terms, client, ai_response, bv_in, bv_pc, bv_out, vrs_out, database,
                   PipelineVars, LoadVars>>

NextTerms == CallParsePaymentTermsWithAI \/ CallSimpleTermsParser

SpecTerms == InitTerms /\ [][NextTerms]_vars

(***************************************************************************)
(* The business value model on its own: one call of                        *)
(* calculate_enhanced_business_value on a resolved PaymentTerms.           *)
(***************************************************************************)
BVAmounts == {1, 2, 5}
BVRates == {R(0), <<1, 2>>, <<5, 2>>, R(3)}
BVDiscountDays == {0, 10, 15}
BVNetDays == {0, 30, 45}
BVIssueDates == {<<2024, 1, 18>>, <<2024, 2, 25>>}
BVClockDays == {<<2024, 1, 17>>, <<2024, 1, 25>>, <<2024, 1, 27>>, <<2024, 1, 28>>,
                <<2024, 2, 2>>, <<2024, 3, 1>>}
ClockHours == {0, 10}

InitBV ==
    /\ TermsIdle
    /\ PipelineIdle
    /\ LoadIdle
    /\ \E fp \in FinancialParameters : database = Database(fp, EmptyDict, EmptyDict)
    /\ bv_in \in [invoice       : [invoice_amount : BVAmounts, issue_date : BVIssueDates],
                  vendor_id     : VendorIds,
                  payment_terms : [payment_type  : {"early_discount"},
                                   discount_rate : BVRates,
                                   discount_days : BVDiscountDays,
                                   net_days      : BVNetDays,
                                   late_fee_rate : {R(0)},
                                   confidence    : {R(1)}],
                  now           : [day : {strptime(t) : t \in BVClockDays}, hour : ClockHours]]
    /\ bv_pc = "call"
    /\ bv_out = NoBV
    /\ vrs_out = NoVrs

CallCalculateEnhancedBusinessValue ==
    /\ bv_pc = "call"
    /\ bv_pc' = "returned"
    /\ bv_out' = calculate_enhanced_business_value(database, bv_in.invoice, bv_in.vendor_id,
                     bv_in.payment_terms, calculate_vrs(database, bv_in.vendor_id), bv_in.now)
    /\ UNCHANGED <<raw_terms, client, ai_response, terms_pc, terms_out, bv_in, vrs_out,
                   database, PipelineVars, LoadVars>>

NextBV == CallCalculateEnhancedBusinessValue

SpecBV == InitBV /\ [][NextBV]_vars

(***************************************************************************)
(* The scoring of one vendor: calculate_vrs, then                          *)
(* calculate_enhanced_business_value, on a vendor whose payment-history    *)
(* summary and risk indicators vary.                                       *)
(***************************************************************************)
\* transaction_summary: either count may be missing; a recorded on-time
\* count is never above a recorded total
TransactionSummaries ==
    {ts \in UNION {[f -> {0, 2, 4, 5}] :
                      f \in SUBSET {"invoices_paid_on_time", "total_invoices"}} :
        /\ "invoices_paid_on_time" \in DOMAIN ts => ts.invoices_paid_on_time \in {0, 2, 4}
        /\ "total_invoices" \in DOMAIN ts => ts.total_invoices \in {0, 4, 5}
        /\ DOMAIN ts = {"invoices_paid_on_time", "total_invoices"}
              => ts.invoices_paid_on_time <= ts.total_invoices}

StressScores == {0, 20, 21, 40, 41, 60, 61, 80, 81, 100}

RiskIndicators == {EmptyDict} \cup {[financial_stress_score |-> x] : x \in StressScores}

VendorDatabase(fp, transaction_summary, risk_indicators) ==
    [Database(fp, EmptyDict, EmptyDict) EXCEPT
        !.payment_history = [V1 |-> [transaction_summary |-> transaction_summary]],
        !.performance_metrics = [V1 |-> [risk_indicators |-> risk_indicators]]]

InitVendor ==
    /\ TermsIdle
    /\ PipelineIdle
    /\ LoadIdle
    /\ \E fp \in FinancialParameters, ts \in TransactionSummaries, ri \in RiskIndicators :
           database = VendorDatabase(fp, ts, ri)
    /\ bv_in = [invoice       |-> [invoice_amount |-> 2, issue_date |-> <<2024, 1, 18>>],
                vendor_id     |-> "V1",
                payment_terms |-> [payment_type  |-> "early_discount",
                                   discount_rate |-> R(3),
                                   discount_days |-> 15,
                                   net_days      |-> 45,
                                   late_fee_rate |-> R(0),
                                   confidence    |-> R(1)],
                now           |-> [day |-> strptime(<<2024, 1, 20>>), hour |-> 10]]
    /\ bv_pc = "vrs"
    /\ bv_out = NoBV
    /\ vrs_out = NoVrs

CallCalculateVrs ==
    /\ bv_pc = "vrs"
    /\ bv_pc' = "call"
    /\ vrs_out' = calculate_vrs(database, bv_in.vendor_id)
    /\ UNCHANGED <<raw_terms, client, ai_response, terms_pc, terms_out, bv_in, bv_out,
                   database, PipelineVars, LoadVars>>

NextVendor == CallCalculateVrs \/ CallCalculateEnhancedBusinessValue

SpecVendor == InitVendor /\ [][NextVendor]_vars

(***************************************************************************)
(* The spend percentile: calculate_vrs, which ranks the vendor with        *)
(* _calculate_spend_percentile, on a vendor master that varies.            *)
(***************************************************************************)
\* vendor_master.json: no vendor known; the sample vendors; vendor V1
\* alone and without contract details; V1 and V2 with the same spend; V1
\* the smallest of four; V1 without a recorded spend next to V2; and V2
\* alone, with a spend and with a spend of 0
VendorMasters ==
    {EmptyDict,
     VendorMaster,
     [V1 |-> EmptyDict],
     [V1 |-> [contract_details |-> [annual_contract_value |-> 4]],
      V2 |-> [contract_details |-> [annual_contract_value |-> 4]]],
     [V1 |-> [contract_details |-> [annual_contract_value |-> 2]],
      V2 |-> [contract_details |-> [annual_contract_value |-> 4]],
      V3 |-> [contract_details |-> [annual_contract_value |-> 72]],
      V4 |-> [contract_details |-> [annual_contract_value |-> 72]]],
     [V1 |-> [contract_details |-> EmptyDict],
      V2 |-> [contract_details |-> [annual_contract_value |-> 4]]],
     [V2 |-> [contract_details |-> [annual_contract_value |-> 4]]],
     [V2 |-> [contract_details |-> [annual_contract_value |-> 0]]]}

InitPercentile ==
    /\ TermsIdle
    /\ PipelineIdle
    /\ LoadIdle
    /\ \E vm \in VendorMasters, ts \in TransactionSummaries :
           database = [Database(EmptyDict, EmptyDict, EmptyDict) EXCEPT
                          !.vendor_master = vm,
                          !.payment_history = [V1 |-> [transaction_summary |-> ts]]]
    /\ \E v \in VendorIds :
           bv_in = [invoice |-> NoInvoice, vendor_id |-> v, payment_terms |-> NoTerms,
                    now |-> NoClock]
    /\ bv_pc = "vrs"
    /\ bv_out = NoBV
    /\ vrs_out = NoVrs

NextPercentile == CallCalculateVrs

SpecPercentile == InitPercentile /\ [][NextPercentile]_vars

(***************************************************************************)
(* PayOptiSystem.generate_payment_sequence, one loop iteration at a time,  *)
(* inside the loop of compare_modes.  Money is in units of 50,000.         *)
(***************************************************************************)
AvailableModes ==
    [balanced          |-> [name |-> "Balanced Optimization", cash_reserve_ratio |-> <<1, 5>>],
     crisis_management |-> [name |-> "Crisis Management", cash_reserve_ratio |-> <<3, 5>>]]

OrganizationConfig == [available_modes |-> AvailableModes]

\* a configuration whose modes lack fields: balanced has no name and
\* crisis_management no cash_reserve_ratio
SparseModes ==
    [balanced          |-> [cash_reserve_ratio |-> <<2, 5>>],
     crisis_management |-> [name |-> "Crisis Management"]]

\* financial_parameters.json with organization_config.json: no parameters
\* with the full configuration, a zero cost of capital with the sparse
\* one, the sample tables with no configuration at all
Settings ==
    {st \in FinancialParameters \X {OrganizationConfig, [available_modes |-> SparseModes],
                                    EmptyDict} :
        \/ DOMAIN st[1] = {} /\ st[2] = OrganizationConfig
        \/ DOMAIN st[1] = {"wacc"} /\ st[2] = [available_modes |-> SparseModes]
        \/ "risk_multipliers" \in DOMAIN st[1] /\ DOMAIN st[2] = {}}

\* "turbo" is not a configured mode
ModeNames == {"balanced", "crisis_management", "turbo"}

InvoicePool ==
    { [invoice_id |-> "INV-1", vendor_id |-> "V1", invoice_amount |-> 2,
       issue_date |-> <<2024, 1, 18>>, due_date |-> <<2024, 3, 3>>,
       payment_terms |-> FormText(<<"3">>, <<"1", "5">>, <<"4", "5">>)],
      [invoice_id |-> "INV-2", vendor_id |-> "V2", invoice_amount |-> 3,
       issue_date |-> <<2024, 1, 15>>, due_date |-> <<2024, 2, 14>>,
       payment_terms |-> FormText(<<"2">>, <<"1", "0">>, <<"3", "0">>)],
      [invoice_id |-> "INV-3", vendor_id |-> "V2", invoice_amount |-> 2,
       issue_date |-> <<2024, 1, 1>>, due_date |-> <<2024, 1, 31>>,
       payment_terms |-> Txt_Net \o <<"3", "0">>],
      [invoice_id |-> "INV-4", vendor_id |-> "V3", invoice_amount |-> 1,
       issue_date |-> <<2024, 1, 10>>] }

MaxInvoices == 3
MaxModes == 2

InvoiceBatches ==
    {b \in UNION {[1..n -> InvoicePool] : n \in 0..MaxInvoices} :
        \A i, j \in 1..Len(b) : i # j => b[i] # b[j]}

ModeLists == UNION {[1..n -> ModeNames] : n \in 0..MaxModes}

CashConstraints == {EmptyDict} \cup {[available_cash |-> c] : c \in {-5, 0, 4, 5}}

\* json.loads of the analysis text, or the default analysis when it fails
_get_default_analysis ==
    [vendor_classification |-> "standard_vendor", payment_priority |-> "medium"]

_generate_fallback_analysis(vrs_components) ==
    IF RLeq(R(85), vrs_components.final_vrs)
    THEN [vendor_classification |-> "strategic_partner", payment_priority |-> "immediate"]
    ELSE _get_default_analysis

_parse_ai_response(resp) ==
    IF resp.kind = "notjson"
    THEN [isdict |-> TRUE, value |-> _get_default_analysis]
    ELSE [isdict |-> resp.kind = "dict", value |-> resp.value]

analyze_vendor_comprehensive(cl, resp, vrs_components) ==
    IF ~cl \/ resp.call = "raises"
    THEN [isdict |-> TRUE, value |-> _generate_fallback_analysis(vrs_components)]
    ELSE _parse_ai_response(resp)

VendorName(db, vendor_id) ==
    Get(Get(Get(db.vendor_master, vendor_id, EmptyDict), "basic_info", EmptyDict),
        "display_name", "Unknown")

\* the dict appended to scored_invoices
ScoredInvoice(db, invoice, payment_terms, vrs_components, cl, aresp, t) ==
    [invoice        |-> invoice,
     vendor_id      |-> invoice.vendor_id,
     vendor_name    |-> VendorName(db, invoice.vendor_id),
     payment_terms  |-> payment_terms,
     vrs_components |-> vrs_components,
     business_value |-> calculate_enhanced_business_value(db, invoice, invoice.vendor_id,
                                                          payment_terms, vrs_components, t),
     ai_analysis    |-> analyze_vendor_comprehensive(cl, aresp, vrs_components)]

\* a sort that puts an element in front of its equals
RECURSIVE InsertByValue_TiesFirst(_, _)
InsertByValue_TiesFirst(s, x) ==
    IF s = <<>> THEN <<x>>
    ELSE IF RLeq(Head(s).business_value.final_business_value,
                 x.business_value.final_business_value)
         THEN <<x>> \o s
         ELSE <<Head(s)>> \o InsertByValue_TiesFirst(Tail(s), x)

\* sorted(scored_invoices, key=final_business_value, reverse=True): an
\* element goes behind every element whose value is at least its own
RECURSIVE InsertByValue(_, _)
InsertByValue(s, x) ==
    IF s = <<>> THEN <<x>>
    ELSE IF RLess(Head(s).business_value.final_business_value,
                  x.business_value.final_business_value)
         THEN <<x>> \o s
         ELSE <<Head(s)>> \o InsertByValue(Tail(s), x)

RECURSIVE SortedPrefix(_, _)
SortedPrefix(s, n) ==
    IF n = 0 THEN <<>> ELSE InsertByValue(SortedPrefix(s, n - 1), s[n])

\* an allocator that takes the invoices as they come
SortedByBusinessValue_InputOrder(s) == s

SortedByBusinessValue(s) == SortedPrefix(s, Len(s))

\* a payment date on the last day of the window itself
OptimalDate_FullWindow(issue_date, discount_days) ==
    strftime(strptime(issue_date) + discount_days)

\* optimal_date = issue_date + timedelta(days=discount_days - 1), as text
OptimalDate(issue_date, discount_days) ==
    strftime(strptime(issue_date) + (discount_days - 1))

\* the two dicts appended to payment_sequence
ScheduledEntry(position, scored_invoice) ==
    [position          |-> position,
     vendor_id         |-> scored_invoice.vendor_id,
     vendor_name       |-> scored_invoice.vendor_name,
     invoice_id        |-> scored_invoice.invoice.invoice_id,
     amount            |-> scored_invoice.invoice.invoice_amount,
     business_value    |-> scored_invoice.business_value.final_business_value,
     vrs_score         |-> scored_invoice.vrs_components.final_vrs,
     discount_rate     |-> scored_invoice.payment_terms.discount_rate,
     discount_captured |-> RMul(R(scored_invoice.invoice.invoice_amount),
                                RDiv(scored_invoice.payment_terms.discount_rate, R(100))),
     payment_timing    |-> OptimalDate(scored_invoice.invoice.issue_date,
                                       scored_invoice.payment_terms.discount_days),
     strategic_impact  |-> Get(scored_invoice.ai_analysis.value, "vendor_classification",
                               "standard"),
     payment_priority  |-> Get(scored_invoice.ai_analysis.value, "payment_priority", "medium"),
     status            |-> "scheduled"]

\* a deferred entry that loses its rank
DeferredEntry_Unranked(position, scored_invoice) ==
    [position          |-> 0,
     vendor_id         |-> scored_invoice.vendor_id,
     vendor_name       |-> scored_invoice.vendor_name,
     invoice_id        |-> scored_invoice.invoice.invoice_id,
     amount            |-> scored_invoice.invoice.invoice_amount,
     business_value    |-> scored_invoice.business_value.final_business_value,
     vrs_score         |-> scored_invoice.vrs_components.final_vrs,
     discount_rate     |-> scored_invoice.payment_terms.discount_rate,
     discount_captured |-> R(0),
     payment_timing    |-> scored_invoice.invoice.due_date,
     status            |-> "deferred"]

DeferredEntry(position, scored_invoice) ==
    [position          |-> position,
     vendor_id         |-> scored_invoice.vendor_id,
     vendor_name       |-> scored_invoice.vendor_name,
     invoice_id        |-> scored_invoice.invoice.invoice_id,
     amount            |-> scored_invoice.invoice.invoice_amount,
     business_value    |-> scored_invoice.business_value.final_business_value,
     vrs_score         |-> scored_invoice.vrs_components.final_vrs,
     discount_rate     |-> scored_invoice.payment_terms.discount_rate,
     discount_captured |-> R(0),
     payment_timing    |-> scored_invoice.invoice.due_date,
     status            |-> "deferred"]

\* a lookup with no fallback to the balanced mode
ModeConfig_NoFallback(config, mode) ==
    Get(Get(config, "available_modes", EmptyDict), mode, EmptyDict)

\* mode_config = self.config.get('available_modes', {}).get(mode, {}), or
\* the balanced one when that is empty
ModeConfig(config, mode) ==
    IF DOMAIN Get(Get(config, "available_modes", EmptyDict), mode, EmptyDict) = {}
    THEN Get(Get(config, "available_modes", EmptyDict), "balanced", EmptyDict)
    ELSE Get(Get(config, "available_modes", EmptyDict), mode, EmptyDict)

\* 2,500,000 when the input names no available_cash
AvailableCash(db) ==
    Get(Get(Get(db, "invoices_input", EmptyDict), "cash_constraints", EmptyDict),
        "available_cash", 50)

ReserveRatio(mc) == Get(mc, "cash_reserve_ratio", <<1, 5>>)

MinimumReserve(db, mc) == RMul(R(AvailableCash(db)), ReserveRatio(mc))

UsableCash(db, mc) == RSub(R(AvailableCash(db)), MinimumReserve(db, mc))

InvoiceBatch(db) == Get(Get(db, "invoices_input", EmptyDict), "invoice_batch", <<>>)

\* invoice.get('payment_terms', 'Net 30')
RawTermsOf(invoice) == Get(invoice, "payment_terms", Txt_Net \o <<"3", "0">>)

\* sums over a payment sequence
RECURSIVE TotalAmount(_)
TotalAmount(ps) == IF ps = <<>> THEN 0 ELSE Head(ps).amount + TotalAmount(Tail(ps))

RECURSIVE TotalCaptured(_)
TotalCaptured(ps) ==
    IF ps = <<>> THEN R(0) ELSE RAdd(Head(ps).discount_captured, TotalCaptured(Tail(ps)))

RECURSIVE TotalVrs(_)
TotalVrs(ps) == IF ps = <<>> THEN R(0) ELSE RAdd(Head(ps).vrs_score, TotalVrs(Tail(ps)))

IsScheduled(p) == p.status = "scheduled"

ScheduledPayments(ps) == SelectSeq(ps, IsScheduled)

_generate_executive_summary(ps, mc) ==
    [dashboard_metrics |->
        [total_payables     |-> TotalAmount(ps),
         potential_savings  |-> TotalCaptured(ScheduledPayments(ps)),
         savings_rate       |-> IF TotalAmount(ps) > 0
                                THEN RMul(RDiv(TotalCaptured(ScheduledPayments(ps)),
                                               R(TotalAmount(ps))), R(100))
                                ELSE R(0),
         active_vendors     |-> Cardinality({ps[i].vendor_id : i \in 1..Len(ps)}),
         scheduled_payments |-> Len(ScheduledPayments(ps)),
         deferred_payments  |-> Len(ps) - Len(ScheduledPayments(ps)),
         average_vrs_score  |-> IF ScheduledPayments(ps) # <<>>
                                THEN RDiv(TotalVrs(ScheduledPayments(ps)),
                                          R(Len(ScheduledPayments(ps))))
                                ELSE R(0)],
     optimization_summary |-> [mode_used |-> Get(mc, "name", "Unknown"),
                               payments_optimized |-> Len(ps)]]

\* sorted(scored_invoices, key=discount_rate, reverse=True)
RECURSIVE InsertByRate(_, _)
InsertByRate(s, x) ==
    IF s = <<>> THEN <<x>>
    ELSE IF RLess(Head(s).payment_terms.discount_rate, x.payment_terms.discount_rate)
         THEN <<x>> \o s
         ELSE <<Head(s)>> \o InsertByRate(Tail(s), x)

RECURSIVE AvalancheSequence(_, _)
AvalancheSequence(s, n) ==
    IF n = 0 THEN <<>> ELSE InsertByRate(AvalancheSequence(s, n - 1), s[n])

\* sorted(scored_invoices, key=invoice_amount)
RECURSIVE InsertByAmount(_, _)
InsertByAmount(s, x) ==
    IF s = <<>> THEN <<x>>
    ELSE IF x.invoice.invoice_amount < Head(s).invoice.invoice_amount
         THEN <<x>> \o s
         ELSE <<Head(s)>> \o InsertByAmount(Tail(s), x)

RECURSIVE SnowballSequence(_, _)
SnowballSequence(s, n) ==
    IF n = 0 THEN <<>> ELSE InsertByAmount(SnowballSequence(s, n - 1), s[n])

\* a baseline loop that stops at the first invoice it cannot pay
TraditionalStep_StopsAtFirstDeferral(acc, scored_invoice) ==
    IF RLeq(R(scored_invoice.invoice.invoice_amount), acc.remaining_cash)
    THEN [total_savings  |-> RAdd(acc.total_savings,
                                  RMul(R(scored_invoice.invoice.invoice_amount),
                                       RDiv(scored_invoice.payment_terms.discount_rate,
                                            R(100)))),
          business_value |-> RAdd(acc.business_value,
                                  scored_invoice.business_value.net_financial_benefit),
          vendors_paid   |-> acc.vendors_paid + 1,
          remaining_cash |-> RSub(acc.remaining_cash,
                                  R(scored_invoice.invoice.invoice_amount))]
    ELSE [acc EXCEPT !.remaining_cash = R(-1)]

\* one iteration of `for scored_invoice in sequence`
TraditionalStep(acc, scored_invoice) ==
    IF RLeq(R(scored_invoice.invoice.invoice_amount), acc.remaining_cash)
    THEN [total_savings  |-> RAdd(acc.total_savings,
                                  RMul(R(scored_invoice.invoice.invoice_amount),
                                       RDiv(scored_invoice.payment_terms.discount_rate,
                                            R(100)))),
          business_value |-> RAdd(acc.business_value,
                                  scored_invoice.business_value.net_financial_benefit),
          vendors_paid   |-> acc.vendors_paid + 1,
          remaining_cash |-> RSub(acc.remaining_cash,
                                  R(scored_invoice.invoice.invoice_amount))]
    ELSE acc

\* usable_cash = available_cash - available_cash * 0.20, then the loop
RECURSIVE _calculate_traditional_results(_, _, _)
_calculate_traditional_results(db, sequence, n) ==
    IF n = 0
    THEN [total_savings |-> R(0), business_value |-> R(0), vendors_paid |-> 0,
          remaining_cash |-> RSub(R(AvailableCash(db)),
                                  RMul(R(AvailableCash(db)), <<1, 5>>))]
    ELSE TraditionalStep(_calculate_traditional_results(db, sequence, n - 1), sequence[n])

_generate_comparison_analysis(db, ps, scored) ==
    [payopti   |-> [total_savings |-> TotalCaptured(ps),
                    vendors_paid  |-> Len(ScheduledPayments(ps))],
     avalanche |-> _calculate_traditional_results(db, AvalancheSequence(scored, Len(scored)),
                                                  Len(scored)),
     snowball  |-> _calculate_traditional_results(db, SnowballSequence(scored, Len(scored)),
                                                  Len(scored))]

\* the dict generate_payment_sequence returns
Results(db, mode, mc, scored, ps) ==
    [payment_sequence    |-> ps,
     comparison_analysis |-> _generate_comparison_analysis(db, ps, scored),
     executive_summary   |-> _generate_executive_summary(ps, mc),
     mode_configuration  |->
        [mode_used |-> mode,
         mode_name |-> Get(mc, "name", mode),
         cash_constraints |-> [available_cash  |-> AvailableCash(db),
                               minimum_reserve |-> MinimumReserve(db, mc),
                               usable_cash     |-> UsableCash(db, mc),
                               reserve_ratio   |-> ReserveRatio(mc)]],
     processing_metadata |->
        [invoices_processed |-> Len(InvoiceBatch(db)),
         vendors_analyzed   |-> Cardinality({scored[i].vendor_id : i \in 1..Len(scored)}),
         total_amount       |-> TotalAmount(ps),
         total_savings      |-> TotalCaptured(ps)]]

NoResults == EmptyDict

\* mode_results[mode] = entry, on a dict that keeps insertion order
DictSet(d, entry) ==
    IF \E i \in 1..Len(d) : d[i].mode = entry.mode
    THEN [i \in 1..Len(d) |-> IF d[i].mode = entry.mode THEN entry ELSE d[i]]
    ELSE Append(d, entry)

SuccessEntry(mode, results) ==
    [mode |-> mode, status |-> "success", error |-> None, results |-> results]

FailedEntry(mode, error) ==
    [mode |-> mode, status |-> "failed", error |-> error, results |-> NoResults]

IsSuccess(e) == e.status = "success"

IsFailed(e) == e.status = "failed"

\* one row of `comparison` in _generate_mode_comparison
ComparisonRow(e) ==
    [mode              |-> e.mode,
     mode_name         |-> e.results.mode_configuration.mode_name,
     total_savings     |-> e.results.executive_summary.dashboard_metrics.potential_savings,
     savings_rate      |-> e.results.executive_summary.dashboard_metrics.savings_rate,
     vendors_scheduled |-> e.results.executive_summary.dashboard_metrics.scheduled_payments,
     average_vrs       |-> e.results.executive_summary.dashboard_metrics.average_vrs_score,
     cash_reserve_ratio |->
         RDiv(e.results.mode_configuration.cash_constraints.minimum_reserve,
              R(e.results.mode_configuration.cash_constraints.available_cash))]

\* a comparison that takes the first successful mode for the best
MaxSavings_OfFirst(rows) == Head(rows).total_savings

\* max(...) keeps the first of several largest
RECURSIVE MaxSavings(_)
MaxSavings(rows) ==
    IF Len(rows) = 1 THEN Head(rows).total_savings
    ELSE RMax(Head(rows).total_savings, MaxSavings(Tail(rows)))

RECURSIVE MaxVrs(_)
MaxVrs(rows) ==
    IF Len(rows) = 1 THEN Head(rows).average_vrs
    ELSE RMax(Head(rows).average_vrs, MaxVrs(Tail(rows)))

\* next(k for k, v in comparison.items() if v[...] == best[...])
FirstWithSavings(rows, best) ==
    rows[CHOOSE i \in 1..Len(rows) :
            /\ rows[i].total_savings = best
            /\ \A j \in 1..(i - 1) : rows[j].total_savings # best].mode

FirstWithVrs(rows, best) ==
    rows[CHOOSE i \in 1..Len(rows) :
            /\ rows[i].average_vrs = best
            /\ \A j \in 1..(i - 1) : rows[j].average_vrs # best].mode

BestPerformers(rows) ==
    [highest_savings |-> [mode    |-> FirstWithSavings(rows, MaxSavings(rows)),
                          savings |-> MaxSavings(rows)],
     highest_vrs     |-> [mode      |-> FirstWithVrs(rows, MaxVrs(rows)),
                          vrs_score |-> MaxVrs(rows)]]

ComparisonRows(successful) == [i \in 1..Len(successful) |-> ComparisonRow(successful[i])]

_generate_mode_comparison(results) ==
    IF SelectSeq(results, IsSuccess) = <<>>
    THEN [status |-> "returned", error |-> "No successful mode results to compare",
          mode_comparison |-> <<>>, best_performers |-> EmptyDict]
    ELSE IF \E i \in 1..Len(results) :
               /\ IsSuccess(results[i])
               /\ results[i].results.mode_configuration.cash_constraints.available_cash = 0
    THEN [status |-> "raised", error |-> "ZeroDivisionError",
          mode_comparison |-> <<>>, best_performers |-> EmptyDict]
    ELSE [status |-> "returned", error |-> None,
          mode_comparison |-> ComparisonRows(SelectSeq(results, IsSuccess)),
          best_performers |-> BestPerformers(ComparisonRows(SelectSeq(results, IsSuccess)))]

\* what compare_modes hands back: the comparison and the processing summary
CompareModesReturn(ms, results, comparison) ==
    IF comparison.status = "raised"
    THEN [status |-> "raised", error |-> comparison.error]
    ELSE [status |-> "returned",
          mode_results |-> results,
          comparative_analysis |-> comparison,
          processing_summary |->
              [modes_requested  |-> Len(ms),
               modes_successful |-> Len(SelectSeq(results, IsSuccess)),
               modes_failed     |-> Len(SelectSeq(results, IsFailed))]]

RunReturned(results) == [status |-> "returned", error |-> None, results |-> results]

RunRaised(error) == [status |-> "raised", error |-> error, results |-> NoResults]

NoRun == [status |-> "none", error |-> None, results |-> NoResults]

\* one iteration of `for invoice in invoice_batch`: the list with the
\* invoice scored, or the exception of the terms interpreter
ScoreWith(scored, invoice, parsed, db, cl, aresp, t) ==
    IF parsed.status = "raised"
    THEN [status |-> "raised", error |-> parsed.error, scored_invoices |-> scored]
    ELSE [status |-> "ok", error |-> None,
          scored_invoices |->
              Append(scored, ScoredInvoice(db, invoice, parsed.terms,
                                           calculate_vrs(db, invoice.vendor_id),
                                           cl, aresp, t))]

ScoreOne(scored, invoice, db, cl, tresp, aresp, t) ==
    ScoreWith(scored, invoice, parse_payment_terms_with_ai(RawTermsOf(invoice), cl, tresp),
              db, cl, aresp, t)

\* an allocator that pays as long as any cash is left
AdmitOne_AnyCashLeft(ps, remaining, scored_invoice) ==
    IF RLess(R(0), remaining)
    THEN [status |-> "ok", error |-> None,
          payment_sequence |-> Append(ps, ScheduledEntry(Len(ps) + 1, scored_invoice)),
          remaining_cash |-> RSub(remaining, R(scored_invoice.invoice.invoice_amount))]
    ELSE IF "due_date" \in DOMAIN scored_invoice.invoice
    THEN [status |-> "ok", error |-> None,
          payment_sequence |-> Append(ps, DeferredEntry(Len(ps) + 1, scored_invoice)),
          remaining_cash |-> remaining]
    ELSE [status |-> "raised", error |-> "KeyError",
          payment_sequence |-> ps, remaining_cash |-> remaining]

\* one iteration of `for i, scored_invoice in enumerate(sorted_invoices)`:
\* the sequence and the cash after it, or the exception of building the entry
\* (ai_analysis.get on a value that is no dict, invoice['due_date'] on an
\* invoice that has none)
\* an allocator that stops paying at the first deferral
AdmitOne_StopsAtFirstDeferral(ps, remaining, scored_invoice) ==
    IF /\ RLeq(R(scored_invoice.invoice.invoice_amount), remaining)
       /\ \A k \in 1..Len(ps) : ps[k].status = "scheduled"
    THEN IF scored_invoice.ai_analysis.isdict
         THEN [status |-> "ok", error |-> None,
               payment_sequence |-> Append(ps, ScheduledEntry(Len(ps) + 1, scored_invoice)),
               remaining_cash |-> RSub(remaining, R(scored_invoice.invoice.invoice_amount))]
         ELSE [status |-> "raised", error |-> "AttributeError",
               payment_sequence |-> ps, remaining_cash |-> remaining]
    ELSE IF "due_date" \in DOMAIN scored_invoice.invoice
    THEN [status |-> "ok", error |-> None,
          payment_sequence |-> Append(ps, DeferredEntry(Len(ps) + 1, scored_invoice)),
          remaining_cash |-> remaining]
    ELSE [status |-> "raised", error |-> "KeyError",
          payment_sequence |-> ps, remaining_cash |-> remaining]

AdmitOne(ps, remaining, scored_invoice) ==
    IF RLeq(R(scored_invoice.invoice.invoice_amount), remaining)
    THEN IF scored_invoice.ai_analysis.isdict
         THEN [status |-> "ok", error |-> None,
               payment_sequence |-> Append(ps, ScheduledEntry(Len(ps) + 1, scored_invoice)),
               remaining_cash |-> RSub(remaining, R(scored_invoice.invoice.invoice_amount))]
         ELSE [status |-> "raised", error |-> "AttributeError",
               payment_sequence |-> ps, remaining_cash |-> remaining]
    ELSE IF "due_date" \in DOMAIN scored_invoice.invoice
    THEN [status |-> "ok", error |-> None,
          payment_sequence |-> Append(ps, DeferredEntry(Len(ps) + 1, scored_invoice)),
          remaining_cash |-> remaining]
    ELSE [status |-> "raised", error |-> "KeyError",
          payment_sequence |-> ps, remaining_cash |-> remaining]

\* results = {...}: _generate_vendor_analysis reads ai_analysis of every
\* scored invoice with .get
BuildResults(db, mode, mc, scored, ps) ==
    IF \E i \in 1..Len(scored) : ~scored[i].ai_analysis.isdict
    THEN RunRaised("AttributeError")
    ELSE RunReturned(Results(db, mode, mc, scored, ps))

\* generate_payment_sequence as one call: the loops run to their end or to
\* the first exception
ScoreNext(prev, db, n, cl, tresp, aresp, t) ==
    IF prev.status = "raised" THEN prev
    ELSE ScoreOne(prev.scored_invoices, InvoiceBatch(db)[n], db, cl, tresp, aresp, t)

RECURSIVE ScoreAll(_, _, _, _, _, _)
ScoreAll(db, n, cl, tresp, aresp, t) ==
    IF n = 0 THEN [status |-> "ok", error |-> None, scored_invoices |-> <<>>]
    ELSE ScoreNext(ScoreAll(db, n - 1, cl, tresp, aresp, t), db, n, cl, tresp, aresp, t)

AdmitNext(prev, scored_invoice) ==
    IF prev.status = "raised" THEN prev
    ELSE AdmitOne(prev.payment_sequence, prev.remaining_cash, scored_invoice)

RECURSIVE AdmitAll(_, _, _)
AdmitAll(sorted, n, usable) ==
    IF n = 0
    THEN [status |-> "ok", error |-> None, payment_sequence |-> <<>>,
          remaining_cash |-> usable]
    ELSE AdmitNext(AdmitAll(sorted, n - 1, usable), sorted[n])

FromAdmitted(admitted, scored, db, mode) ==
    IF admitted.status = "raised" THEN RunRaised(admitted.error)
    ELSE BuildResults(db, mode, ModeConfig(db.organization_config, mode), scored,
                      admitted.payment_sequence)

FromScored(sc, db, mode) ==
    IF sc.status = "raised" THEN RunRaised(sc.error)
    ELSE FromAdmitted(AdmitAll(SortedByBusinessValue(sc.scored_invoices),
                               Len(sc.scored_invoices),
                               UsableCash(db, ModeConfig(db.organization_config, mode))),
                      sc.scored_invoices, db, mode)

generate_payment_sequence(db, mode, cl, tresp, aresp, t) ==
    FromScored(ScoreAll(db, Len(InvoiceBatch(db)), cl, tresp, aresp, t), db, mode)

\* How the collaborator behaves during one run of a mode: what it does when
\* asked to parse terms, and what it does when asked to analyse a vendor.
CollaboratorBehaviours ==
    { <<AIRaises, AIRaises>>,
      <<AINotJson, AINotJson>>,
      <<AIDict([payment_type |-> "early_discount", discount_rate |-> JNum(R(2)),
                discount_days |-> JNum(R(10)), net_days |-> JNum(R(30))]),
        AIDict([vendor_classification |-> "key_supplier", payment_priority |-> "high"])>>,
      <<AIDict([payment_type |-> "net_term", discount_rate |-> JBad]),
        AIDict(EmptyDict)>>,
      <<AIDict(EmptyDict), AINonDict>> }

BehavioursOf(cl) == IF cl THEN CollaboratorBehaviours ELSE {<<AIRaises, AIRaises>>}

PipelineClocks ==
    {[day |-> strptime(<<2024, 1, 20>>), hour |-> 10],
     [day |-> strptime(<<2024, 1, 28>>), hour |-> 0]}

(***************************************************************************)
(* One call of generate_payment_sequence(mode), one loop iteration at a    *)
(* time.                                                                   *)
(***************************************************************************)
Init ==
    /\ raw_terms = <<>>
    /\ terms_pc = "idle"
    /\ terms_out = [fn |-> "none"] @@ Raised("none")
    /\ BVIdle
    /\ LoadIdle
    /\ client \in BOOLEAN
    /\ \E b \in BehavioursOf(client) : ai_response = b[1] /\ analysis_response = b[2]
    /\ \E cc \in CashConstraints, b \in InvoiceBatches, st \in Settings :
           database = Database(st[1], [cash_constraints |-> cc, invoice_batch |-> b], st[2])
    /\ run_mode \in ModeNames
    /\ clock \in PipelineClocks
    /\ pc = "start"
    /\ modes = <<>>
    /\ mode_idx = 1
    /\ mode_config = EmptyDict
    /\ usable_cash = R(0)
    /\ scored_invoices = <<>>
    /\ sorted_invoices = <<>>
    /\ payment_sequence = <<>>
    /\ remaining_cash = R(0)
    /\ run_out = NoRun
    /\ mode_results = <<>>
    /\ compare_out = None

\* mode_config, the cash constraints and the empty scored_invoices
StartRun ==
    /\ pc = "start"
    /\ mode_config' = ModeConfig(database.organization_config, run_mode)
    /\ usable_cash' = UsableCash(database, ModeConfig(database.organization_config, run_mode))
    /\ scored_invoices' = <<>>
    /\ pc' = "score"
    /\ UNCHANGED <<UnitVars, LoadVars, client, ai_response, analysis_response, database, modes, run_mode,
                   clock, mode_idx, sorted_invoices, payment_sequence, remaining_cash,
                   run_out, mode_results, compare_out>>

ScoreApply(step) ==
    IF step.status = "raised"
    THEN /\ pc' = "raised"
         /\ run_out' = RunRaised(step.error)
         /\ UNCHANGED scored_invoices
    ELSE /\ scored_invoices' = step.scored_invoices
         /\ UNCHANGED <<pc, run_out>>

\* one iteration of `for invoice in invoice_batch`
ScoreInvoice ==
    /\ pc = "score"
    /\ Len(scored_invoices) < Len(InvoiceBatch(database))
    /\ ScoreApply(ScoreOne(scored_invoices, InvoiceBatch(database)[Len(scored_invoices) + 1],
                           database, client, ai_response, analysis_response, clock))
    /\ UNCHANGED <<UnitVars, LoadVars, client, ai_response, analysis_response, database, modes, run_mode,
                   clock, mode_idx, mode_config, usable_cash, sorted_invoices,
                   payment_sequence, remaining_cash, mode_results, compare_out>>

\* sorted_invoices = sorted(...); payment_sequence = []; remaining_cash = usable_cash
SortInvoices ==
    /\ pc = "score"
    /\ Len(scored_invoices) = Len(InvoiceBatch(database))
    /\ sorted_invoices' = SortedByBusinessValue(scored_invoices)
    /\ payment_sequence' = <<>>
    /\ remaining_cash' = usable_cash
    /\ pc' = "admit"
    /\ UNCHANGED <<UnitVars, LoadVars, client, ai_response, analysis_response, database, modes, run_mode,
                   clock, mode_idx, mode_config, usable_cash, scored_invoices, run_out,
                   mode_results, compare_out>>

AdmitApply(step) ==
    IF step.status = "raised"
    THEN /\ pc' = "raised"
         /\ run_out' = RunRaised(step.error)
         /\ UNCHANGED <<payment_sequence, remaining_cash>>
    ELSE /\ payment_sequence' = step.payment_sequence
         /\ remaining_cash' = step.remaining_cash
         /\ UNCHANGED <<pc, run_out>>

\* one iteration of `for i, scored_invoice in enumerate(sorted_invoices)`
AdmitInvoice ==
    /\ pc = "admit"
    /\ Len(payment_sequence) < Len(sorted_invoices)
    /\ AdmitApply(AdmitOne(payment_sequence, remaining_cash,
                           sorted_invoices[Len(payment_sequence) + 1]))
    /\ UNCHANGED <<UnitVars, LoadVars, client, ai_response, analysis_response, database, modes, run_mode,
                   clock, mode_idx, mode_config, usable_cash, scored_invoices,
                   sorted_invoices, mode_results, compare_out>>

ReturnApply(out) ==
    /\ run_out' = out
    /\ pc' = IF out.status = "raised" THEN "raised" ELSE "returned"

\* results = {...}; return results
ReturnResults ==
    /\ pc = "admit"
    /\ Len(payment_sequence) = Len(sorted_invoices)
    /\ ReturnApply(BuildResults(database, run_mode, mode_config, scored_invoices,
                                payment_sequence))
    /\ UNCHANGED <<UnitVars, LoadVars, client, ai_response, analysis_response, database, modes, run_mode,
                   clock, mode_idx, mode_config, usable_cash, scored_invoices,
                   sorted_invoices, payment_sequence, remaining_cash, mode_results,
                   compare_out>>

Next ==
    \/ StartRun
    \/ ScoreInvoice
    \/ SortInvoices
    \/ AdmitInvoice
    \/ ReturnResults

Spec == Init /\ [][Next]_vars

(***************************************************************************)
(* compare_modes(modes): each run of generate_payment_sequence is one      *)
(* step of its loop.                                                       *)
(***************************************************************************)
CompareBatches ==
    { <<>>,
      <<CHOOSE v \in InvoicePool : v.invoice_id = "INV-4">>,
      <<CHOOSE v \in InvoicePool : v.invoice_id = "INV-2",
        CHOOSE v \in InvoicePool : v.invoice_id = "INV-3",
        CHOOSE v \in InvoicePool : v.invoice_id = "INV-1">>,
      <<CHOOSE v \in InvoicePool : v.invoice_id = "INV-3",
        CHOOSE v \in InvoicePool : v.invoice_id = "INV-4",
        CHOOSE v \in InvoicePool : v.invoice_id = "INV-1">> }

InitCompare ==
    /\ raw_terms = <<>>
    /\ terms_pc = "idle"
    /\ terms_out = [fn |-> "none"] @@ Raised("none")
    /\ BVIdle
    /\ LoadIdle
    /\ client \in BOOLEAN
    /\ ai_response = AIRaises
    /\ analysis_response = AIRaises
    /\ \E cc \in CashConstraints, b \in CompareBatches :
           database = Database(EmptyDict, [cash_constraints |-> cc, invoice_batch |-> b],
                               OrganizationConfig)
    /\ modes \in ModeLists
    /\ run_mode = None
    /\ clock = [day |-> strptime(<<2024, 1, 20>>), hour |-> 10]
    /\ pc = "loop"
    /\ mode_idx = 1
    /\ mode_config = EmptyDict
    /\ usable_cash = R(0)
    /\ scored_invoices = <<>>
    /\ sorted_invoices = <<>>
    /\ payment_sequence = <<>>
    /\ remaining_cash = R(0)
    /\ run_out = NoRun
    /\ mode_results = <<>>
    /\ compare_out = None

\* a run that leaves the cash it paid out spent: after a run that returned,
\* the next one finds no cash
RunMode_SpendsCash ==
    /\ pc = "loop"
    /\ mode_idx <= Len(modes)
    /\ run_mode' = modes[mode_idx]
    /\ \E b \in BehavioursOf(client) :
           /\ ai_response' = b[1]
           /\ analysis_response' = b[2]
           /\ run_out' = generate_payment_sequence(
                             IF run_out.status = "returned"
                             THEN [database EXCEPT !.invoices_input.cash_constraints =
                                       [available_cash |-> 0]]
                             ELSE database,
                             modes[mode_idx], client, b[1], b[2], clock)
    /\ pc' = "ran"
    /\ UNCHANGED <<UnitVars, LoadVars, client, database, modes, clock, mode_idx, mode_config,
                   usable_cash, scored_invoices, sorted_invoices, payment_sequence,
                   remaining_cash, mode_results, compare_out>>

\* for mode in modes: try: results = self.generate_payment_sequence(mode)
RunMode ==
    /\ pc = "loop"
    /\ mode_idx <= Len(modes)
    /\ run_mode' = modes[mode_idx]
    /\ \E b \in BehavioursOf(client) :
           /\ ai_response' = b[1]
           /\ analysis_response' = b[2]
           /\ run_out' = generate_payment_sequence(database, modes[mode_idx], client,
                                                   b[1], b[2], clock)
    /\ pc' = "ran"
    /\ UNCHANGED <<UnitVars, LoadVars, client, database, modes, clock, mode_idx, mode_config,
                   usable_cash, scored_invoices, sorted_invoices, payment_sequence,
                   remaining_cash, mode_results, compare_out>>

\* mode_results[mode] = {'status': 'success', 'results': results}
RecordSuccess ==
    /\ pc = "ran"
    /\ run_out.status = "returned"
    /\ mode_results' = DictSet(mode_results, SuccessEntry(run_mode, run_out.results))
    /\ mode_idx' = mode_idx + 1
    /\ pc' = "loop"
    /\ UNCHANGED <<UnitVars, LoadVars, client, ai_response, analysis_response, database, modes, run_mode,
                   clock, mode_config, usable_cash, scored_invoices, sorted_invoices,
                   payment_sequence, remaining_cash, run_out, compare_out>>

\* a compare_modes without the try: the exception of a run ends the batch
RecordFailure_Abort ==
    /\ pc = "ran"
    /\ run_out.status = "raised"
    /\ compare_out' = [status |-> "raised", error |-> run_out.error]
    /\ pc' = "done"
    /\ UNCHANGED <<UnitVars, LoadVars, client, ai_response, analysis_response, database, modes, run_mode,
                   clock, mode_idx, mode_config, usable_cash, scored_invoices,
                   sorted_invoices, payment_sequence, remaining_cash, run_out, mode_results>>

\* except Exception as e: mode_results[mode] = {'status': 'failed', 'error': str(e)}
RecordFailure ==
    /\ pc = "ran"
    /\ run_out.status = "raised"
    /\ mode_results' = DictSet(mode_results, FailedEntry(run_mode, run_out.error))
    /\ mode_idx' = mode_idx + 1
    /\ pc' = "loop"
    /\ UNCHANGED <<UnitVars, LoadVars, client, ai_response, analysis_response, database, modes, run_mode,
                   clock, mode_config, usable_cash, scored_invoices, sorted_invoices,
                   payment_sequence, remaining_cash, run_out, compare_out>>

\* after the loop: the comparative analysis and the return value
FinishCompareModes ==
    /\ pc = "loop"
    /\ mode_idx > Len(modes)
    /\ compare_out' = CompareModesReturn(modes, mode_results,
                                         _generate_mode_comparison(mode_results))
    /\ pc' = "done"
    /\ UNCHANGED <<UnitVars, LoadVars, client, ai_response, analysis_response, database, modes, run_mode,
                   clock, mode_idx, mode_config, usable_cash, scored_invoices,
                   sorted_invoices, payment_sequence, remaining_cash, run_out, mode_results>>

\* the loop of compare_modes over the first n modes of ms, every run with
\* answers tresp and aresp of the collaborator
RECURSIVE RunModes(_, _, _, _, _, _, _)
RunModes(db, ms, n, cl, tresp, aresp, t) ==
    IF n = 0 THEN <<>>
    ELSE DictSet(RunModes(db, ms, n - 1, cl, tresp, aresp, t),
                 IF generate_payment_sequence(db, ms[n], cl, tresp, aresp, t).status
                        = "returned"
                 THEN SuccessEntry(ms[n],
                                   generate_payment_sequence(db, ms[n], cl, tresp, aresp,
                                                             t).results)
                 ELSE FailedEntry(ms[n],
                                  generate_payment_sequence(db, ms[n], cl, tresp, aresp,
                                                            t).error))

compare_modes(db, ms, cl, tresp, aresp, t) ==
    CompareModesReturn(ms, RunModes(db, ms, Len(ms), cl, tresp, aresp, t),
                       _generate_mode_comparison(RunModes(db, ms, Len(ms), cl, tresp,
                                                          aresp, t)))

NextCompare ==
    \/ RunMode
    \/ RecordSuccess
    \/ RecordFailure
    \/ FinishCompareModes

SpecCompare == InitCompare /\ [][NextCompare]_vars

(***************************************************************************)
(* PayOptiSystem._load_all_data, one file of required_files at a time.     *)
(* A file name is its stem and its suffix; the data directory says of each *)
(* file whether it holds JSON, is missing, or holds text that is not JSON. *)
(***************************************************************************)
JsonFile(stem) == [stem |-> stem, suffix |-> ".json"]

required_files ==
    <<JsonFile("invoices_input"), JsonFile("vendor_master"), JsonFile("payment_history"),
      JsonFile("communication_logs"), JsonFile("performance_metrics"),
      JsonFile("market_intelligence"), JsonFile("organization_config"),
      JsonFile("financial_parameters")>>

FileStates == {"ok", "missing", "invalid"}

\* filename.replace('.json', '')
KeyOf(filename) == IF filename.suffix = ".json" THEN filename.stem ELSE filename

\* json.load(f) of a file that holds JSON: an object that names its file
ContentOf(filename) == [file |-> filename.stem]

\* d[k] = v
SetItem(d, k, v) == [x \in DOMAIN d \cup {k} |-> IF x = k THEN v ELSE d[x]]

InitLoad ==
    /\ TermsIdle
    /\ BVIdle
    /\ PipelineIdle
    /\ files \in [1..Len(required_files) -> FileStates]
    /\ database = EmptyDict
    /\ load_pc = "loop"
    /\ file_idx = 1
    /\ key = Unbound
    /\ self_config = EmptyDict

\* one iteration of `for filename in required_files`: open() raises
\* FileNotFoundError before `key` is assigned, json.load raises
\* JSONDecodeError after it; the handlers store {} under `key` as it is then
LoadFile ==
    /\ load_pc = "loop"
    /\ file_idx <= Len(required_files)
    /\ \/ /\ files[file_idx] = "ok"
          /\ key' = KeyOf(required_files[file_idx])
          /\ database' = SetItem(database, KeyOf(required_files[file_idx]),
                                 ContentOf(required_files[file_idx]))
          /\ UNCHANGED load_pc
       \/ /\ files[file_idx] = "invalid"
          /\ key' = KeyOf(required_files[file_idx])
          /\ database' = SetItem(database, KeyOf(required_files[file_idx]), EmptyDict)
          /\ UNCHANGED load_pc
       \/ /\ files[file_idx] = "missing"
          /\ key # Unbound
          /\ database' = SetItem(database, key, EmptyDict)
          /\ UNCHANGED <<key, load_pc>>
       \/ /\ files[file_idx] = "missing"
          /\ key = Unbound
          /\ load_pc' = "raised"
          /\ UNCHANGED <<key, database>>
    /\ file_idx' = file_idx + 1
    /\ UNCHANGED <<raw_terms, client, ai_response, terms_pc, terms_out, bv_in, bv_pc, bv_out,
                   vrs_out, PipelineVars, files, self_config>>

\* self.config = self.database.get('organization_config', {})
FinishLoad ==
    /\ load_pc = "loop"
    /\ file_idx > Len(required_files)
    /\ self_config' = Get(database, "organization_config", EmptyDict)
    /\ load_pc' = "returned"
    /\ UNCHANGED <<raw_terms, client, ai_response, terms_pc, terms_out, bv_in, bv_pc, bv_out,
                   vrs_out, database, PipelineVars, files, file_idx, key>>

NextLoad == LoadFile \/ FinishLoad

SpecLoad == InitLoad /\ [][NextLoad]_vars

(***************************************************************************)
(* Properties of the business value model (SpecBV).                        *)
(***************************************************************************)
\* the discount deadline minus the current date, in calendar days
CalendarDaysToDeadline ==
    strptime(bv_in.invoice.issue_date) + bv_in.payment_terms.discount_days - bv_in.now.day

\* the same as the code measures it, from the current instant
ClockDaysToDeadline ==
    DaysUntil(strptime(bv_in.invoice.issue_date) + bv_in.payment_terms.discount_days, bv_in.now)

\* C5: an invoice whose days to the discount deadline are <= 0 (by the
\* calendar, or as measured from the current instant) gets urgency_multiplier
\* 0 and final_business_value exactly 0, whatever the other factors are.
C5_ExpiredWindowIsZero ==
    (bv_pc = "returned" /\ (CalendarDaysToDeadline <= 0 \/ ClockDaysToDeadline <= 0))
        => /\ bv_out.urgency_multiplier = R(0)
           /\ bv_out.final_business_value = R(0)

\* an expired window on an invoice whose discount is worth taking and whose
\* other multipliers are all positive
C5_Witness ==
    /\ bv_pc = "returned"
    /\ CalendarDaysToDeadline = 0
    /\ bv_in.now.hour = 0
    /\ RLess(R(0), bv_out.net_financial_benefit)
    /\ RLess(R(1), bv_out.business_impact_multiplier)
    /\ bv_out.final_business_value = R(0)

C20_UrgencyByCalendarDays ==
    bv_pc = "returned"
        => bv_out.urgency_multiplier =
               IF CalendarDaysToDeadline <= 0 THEN R(0)
               ELSE IF CalendarDaysToDeadline <= 3 THEN <<3, 2>>
               ELSE IF CalendarDaysToDeadline <= 7 THEN <<6, 5>>
               ELSE IF CalendarDaysToDeadline <= 14 THEN <<11, 10>>
               ELSE R(1)

(***************************************************************************)
(* Properties of the scoring of one vendor (SpecVendor).                   *)
(***************************************************************************)
RecordedSummary ==
    Get(Get(database.payment_history, bv_in.vendor_id, EmptyDict),
        "transaction_summary", EmptyDict)

\* C13: once calculate_vrs has returned, repayment_score lies in [0, 100],
\* whichever of the two counts is recorded; it is 100 * on_time / total when
\* the recorded total is positive (a missing on-time count being 0) and 50
\* when the recorded total is 0.
C13_RepaymentScoreInRange ==
    bv_pc \in {"call", "returned"}
        => /\ RLeq(R(0), vrs_out.repayment_score)
           /\ RLeq(vrs_out.repayment_score, R(100))
           /\ Get(RecordedSummary, "total_invoices", 0) > 0
                 => vrs_out.repayment_score =
                        RDiv(R(100 * Get(RecordedSummary, "invoices_paid_on_time", 0)),
                             R(RecordedSummary.total_invoices))
           /\ Get(RecordedSummary, "total_invoices", 1) = 0
                 => vrs_out.repayment_score = R(50)

StressScore ==
    Get(Get(Get(database.performance_metrics, bv_in.vendor_id, EmptyDict),
            "risk_indicators", EmptyDict), "financial_stress_score", 50)

RiskBucket ==
    IF StressScore <= 20 THEN "very_low"
    ELSE IF StressScore <= 40 THEN "low"
    ELSE IF StressScore <= 60 THEN "medium"
    ELSE IF StressScore <= 80 THEN "high"
    ELSE "very_high"

\* C14: risk_multiplier is the entry of the bucket of the financial-stress
\* score s, buckets inclusive on the upper bound (s <= 20 very_low, <= 40 low,
\* <= 60 medium, <= 80 high, above very_high), taken from the risk_multipliers
\* table when it has the bucket and from the defaults 1.2, 1.0, 0.85, 0.7,
\* 0.5 otherwise.
C14_RiskBuckets ==
    bv_pc = "returned"
        => bv_out.risk_multiplier =
               IF /\ "risk_multipliers" \in DOMAIN database.financial_parameters
                  /\ RiskBucket \in DOMAIN database.financial_parameters.risk_multipliers
               THEN database.financial_parameters.risk_multipliers[RiskBucket]
               ELSE CASE RiskBucket = "very_low" -> <<6, 5>>
                      [] RiskBucket = "low" -> R(1)
                      [] RiskBucket = "medium" -> <<17, 20>>
                      [] RiskBucket = "high" -> <<7, 10>>
                      [] RiskBucket = "very_high" -> <<1, 2>>

\* a score of exactly 20 with a table that overrides very_low
C14_Witness ==
    /\ bv_pc = "returned"
    /\ StressScore = 20
    /\ "risk_multipliers" \in DOMAIN database.financial_parameters
    /\ bv_out.risk_multiplier = <<13, 10>>

(***************************************************************************)
(* Properties of the terms interpreter (SpecTerms).                        *)
(***************************************************************************)
InterpreterDone == terms_pc = "done" /\ terms_out.fn = "parse_payment_terms_with_ai"

HasDigit(t) == \E i \in 1..Len(t) : t[i] \in Digits

DefaultTerms(conf) ==
    [payment_type |-> "net_term", discount_rate |-> R(0), discount_days |-> 0,
     net_days |-> 30, late_fee_rate |-> R(0), confidence |-> conf]

\* C7: the interpreter never raises, whatever the collaborator does, and a
\* text with nothing to parse comes back as net_term / 30 days / 0%.
C7_NeverRaises ==
    InterpreterDone
        => /\ terms_out.status = "returned"
           /\ (~client /\ ~HasDigit(raw_terms)) => terms_out.terms = DefaultTerms(<<7, 10>>)

\* the record the deterministic fallback parser gives for the text
FallbackTerms(raw) == PaymentTermsOf(TRUE, _fallback_payment_terms_parse(raw))

ExternalPathFailed ==
    client /\ (ai_response.call = "raises" \/ ai_response.kind = "notjson")

\* C8: when the external call fails or its answer cannot be parsed, the
\* result is exactly what the deterministic fallback parser gives for the
\* same text, confidence 0.7 included.
C8_FailureFallsThrough ==
    (InterpreterDone /\ ExternalPathFailed)
        => /\ terms_out.status = "returned"
           /\ terms_out.terms = FallbackTerms(raw_terms).terms

FallbackUsed ==
    /\ terms_pc = "done"
    /\ \/ terms_out.fn = "_simple_terms_parser"
       \/ terms_out.fn = "parse_payment_terms_with_ai" /\ (~client \/ ai_response.call = "raises")

\* C9: for a text '<r>/<d> net <n>' the deterministic parser returns
\* discount_rate r, discount_days d, net_days n, confidence 0.7 and
\* payment_type early_discount exactly when r > 0, net_term otherwise.
C9_FallbackParse ==
    \A r \in RateTexts, d \in DayTexts, n \in NetTexts :
        (FallbackUsed /\ raw_terms = FormText(r, d, n))
            => /\ terms_out.status = "returned"
               /\ terms_out.terms.discount_rate = FloatOf(r)
               /\ terms_out.terms.discount_days = IntOf(d)
               /\ terms_out.terms.net_days = IntOf(n)
               /\ terms_out.terms.confidence = <<7, 10>>
               /\ terms_out.terms.payment_type =
                      (IF RLess(R(0), FloatOf(r)) THEN "early_discount" ELSE "net_term")

\* "3/15 net 45" through the fallback of the interpreter
C9_Witness ==
    /\ terms_pc = "done"
    /\ terms_out.fn = "parse_payment_terms_with_ai"
    /\ ~client
    /\ raw_terms = <<"3", "/", "1", "5", " ", "n", "e", "t", " ", "4", "5">>
    /\ terms_out.terms = [payment_type |-> "early_discount", discount_rate |-> <<3, 1>>,
                          discount_days |-> 15, net_days |-> 45,
                          late_fee_rate |-> <<0, 1>>, confidence |-> <<7, 10>>]

(***************************************************************************)
(* Properties of the allocator and of compare_modes (Spec).                *)
(***************************************************************************)
\* sum of `amount` over the scheduled entries among the first k
RECURSIVE ScheduledSum(_, _)
ScheduledSum(ps, k) ==
    IF k = 0 THEN 0
    ELSE ScheduledSum(ps, k - 1) + (IF ps[k].status = "scheduled" THEN ps[k].amount ELSE 0)

WithinBudgetAtEveryPrefix ==
    \A k \in 1..Len(payment_sequence) :
        /\ ScheduledSum(payment_sequence, k - 1) <= ScheduledSum(payment_sequence, k)
        /\ RLeq(R(ScheduledSum(payment_sequence, k)), usable_cash)

\* C1: when usable_cash is not negative, at every prefix of the payment
\* sequence the sum of `amount` over the scheduled entries is non-decreasing
\* and never exceeds usable_cash.
C1_BudgetInvariant ==
    RLeq(R(0), usable_cash) => WithinBudgetAtEveryPrefix

\* C1 as stated, for any available_cash and any reserve ratio
C1_BudgetAnyCash == WithinBudgetAtEveryPrefix

\* a full batch of three in which cash ran out: something paid, something not
C1_Witness ==
    /\ pc = "admit"
    /\ Len(payment_sequence) = 3
    /\ RLess(R(0), usable_cash)
    /\ \E i, j \in 1..3 : /\ i < j
                          /\ payment_sequence[i].status = "deferred"
                          /\ payment_sequence[j].status = "scheduled"
    /\ R(ScheduledSum(payment_sequence, 3)) = usable_cash

\* position of an invoice in the input batch
BatchIndex(invoice_id) ==
    CHOOSE n \in 1..Len(InvoiceBatch(database)) :
        InvoiceBatch(database)[n].invoice_id = invoice_id

\* C2: the payment sequence is in non-increasing order of
\* final_business_value, and entries of equal value keep the relative order
\* they had in the input invoice_batch.
C2_StableDescending ==
    \A i, j \in 1..Len(payment_sequence) :
        i < j =>
            /\ ~RLess(payment_sequence[i].business_value, payment_sequence[j].business_value)
            /\ (payment_sequence[i].business_value = payment_sequence[j].business_value)
                   => BatchIndex(payment_sequence[i].invoice_id)
                        < BatchIndex(payment_sequence[j].invoice_id)

\* a sorted batch of three: the last input leads, the two it overtook tie
C2_Witness ==
    /\ pc = "admit"
    /\ Len(payment_sequence) = 3
    /\ RLess(payment_sequence[2].business_value, payment_sequence[1].business_value)
    /\ payment_sequence[2].business_value = payment_sequence[3].business_value
    /\ BatchIndex(payment_sequence[1].invoice_id) = 3

\* C3: an invoice taken in sorted order with remaining_cash >= amount is
\* entered as scheduled, with discount_captured = amount * discount_rate / 100
\* and payment_timing = issue_date + (discount_days - 1) days, and
\* remaining_cash goes down by exactly amount; otherwise it is entered as
\* deferred, with payment_timing = due_date and discount_captured = 0, and
\* remaining_cash stays as it was.
C3_AdmissionRule ==
    [][(pc = "admit" /\ Len(payment_sequence') = Len(payment_sequence) + 1)
        => LET taken == sorted_invoices[Len(payment_sequence) + 1]
               entry == payment_sequence'[Len(payment_sequence) + 1]
           IN  IF RLeq(R(taken.invoice.invoice_amount), remaining_cash)
               THEN /\ entry.status = "scheduled"
                    /\ entry.amount = taken.invoice.invoice_amount
                    /\ entry.discount_captured =
                           Norm(taken.invoice.invoice_amount * taken.payment_terms.discount_rate[1],
                                100 * taken.payment_terms.discount_rate[2])
                    /\ strptime(entry.payment_timing) =
                           strptime(taken.invoice.issue_date) + taken.payment_terms.discount_days - 1
                    /\ RAdd(remaining_cash', R(taken.invoice.invoice_amount)) = remaining_cash
               ELSE /\ entry.status = "deferred"
                    /\ entry.amount = taken.invoice.invoice_amount
                    /\ entry.payment_timing = taken.invoice.due_date
                    /\ entry.discount_captured = R(0)
                    /\ remaining_cash' = remaining_cash]_vars

\* INV-1 (100,000 at 3/15 net 45, issued 18 Jan) paid on 1 Feb for a 3,000
\* discount out of a budget of 100,000, and INV-2 then deferred to its due date
C3_Witness ==
    /\ pc = "admit"
    /\ Len(payment_sequence) = 2
    /\ usable_cash = R(2)
    /\ payment_sequence[1].invoice_id = "INV-1"
    /\ payment_sequence[1].status = "scheduled"
    /\ payment_sequence[1].discount_captured = <<3, 50>>
    /\ payment_sequence[1].payment_timing = <<2024, 2, 1>>
    /\ payment_sequence[2].invoice_id = "INV-2"
    /\ payment_sequence[2].status = "deferred"
    /\ payment_sequence[2].payment_timing = <<2024, 2, 14>>
    /\ remaining_cash = R(0)

SequenceComplete ==
    /\ pc \in {"admit", "returned"}
    /\ Len(payment_sequence) = Len(InvoiceBatch(database))

\* entries i and j each fit the budget alone, not together, and i is worth more
Contend(i, j) ==
    /\ RLeq(R(payment_sequence[i].amount), usable_cash)
    /\ RLeq(R(payment_sequence[j].amount), usable_cash)
    /\ RLess(usable_cash, R(payment_sequence[i].amount + payment_sequence[j].amount))
    /\ RLess(payment_sequence[j].business_value, payment_sequence[i].business_value)

HigherPaidLowerDeferred ==
    \A i, j \in 1..Len(payment_sequence) :
        Contend(i, j) => /\ payment_sequence[i].status = "scheduled"
                         /\ payment_sequence[j].status = "deferred"

\* C4: in a batch of exactly two invoices that each fit within usable_cash
\* alone but not together, the one with the strictly higher
\* final_business_value is scheduled and the other is deferred.
C4_PriorityTwoInvoices ==
    (SequenceComplete /\ Len(payment_sequence) = 2) => HigherPaidLowerDeferred

\* C4 as stated, for any two invoices of any batch
C4_PriorityAnyBatch == SequenceComplete => HigherPaidLowerDeferred

\* two invoices of 100,000 against a budget of 100,000
C4_Witness ==
    /\ SequenceComplete
    /\ Len(payment_sequence) = 2
    /\ payment_sequence[1].amount = payment_sequence[2].amount
    /\ Contend(1, 2)
    /\ payment_sequence[1].status = "scheduled"
    /\ payment_sequence[2].status = "deferred"

EntriesFor(results, mode) == {k \in 1..Len(results) : results[k].mode = mode}

\* C10: when generate_payment_sequence raises for a mode, that mode is
\* recorded as failed with its error and the loop moves on to the next mode;
\* the loop runs the modes of the list one after the other, each advance
\* following a run, compare_modes finishes only after the last mode, and then
\* every requested mode name has exactly one entry, whose status is success
\* or failed.
C10_ContinuesPastFailure ==
    [][/\ (pc = "ran" /\ run_out.status = "raised")
            => /\ \E k \in EntriesFor(mode_results', modes[mode_idx]) :
                      /\ mode_results'[k].status = "failed"
                      /\ mode_results'[k].error = run_out.error
               /\ mode_idx' = mode_idx + 1
               /\ pc' = "loop"
       /\ pc' = "ran" => run_mode' = modes[mode_idx]
       /\ mode_idx' # mode_idx
            => /\ mode_idx' = mode_idx + 1
               /\ pc = "ran"
       /\ pc' = "done"
            => /\ mode_idx = Len(modes) + 1
               /\ \A i \in 1..Len(modes) :
                      /\ Cardinality(EntriesFor(mode_results', modes[i])) = 1
                      /\ \A k \in EntriesFor(mode_results', modes[i]) :
                             mode_results'[k].status \in {"success", "failed"}]_vars

\* the first of two modes failed, the second ran and succeeded
C10_Witness ==
    /\ pc = "done"
    /\ Len(modes) = 2
    /\ Len(mode_results) = 2
    /\ mode_results[1].mode = modes[1]
    /\ mode_results[1].status = "failed"
    /\ mode_results[1].error = "ValueError"
    /\ mode_results[2].mode = modes[2]
    /\ mode_results[2].status = "success"
    /\ Len(mode_results[2].results.payment_sequence) = 3
    /\ compare_out.status = "returned"
    /\ compare_out.processing_summary.modes_failed = 1

(***************************************************************************)
(* Properties of one run of generate_payment_sequence (Spec), continued.   *)
(***************************************************************************)
\* the same call with mode 'balanced'
BalancedRun ==
    generate_payment_sequence(database, "balanced", client, ai_response, analysis_response,
                              clock)

BalancedConfig ==
    Get(Get(database.organization_config, "available_modes", EmptyDict), "balanced",
        EmptyDict)

ModeIsConfigured ==
    run_mode \in DOMAIN Get(database.organization_config, "available_modes", EmptyDict)

\* the run ended as `other` did, with the same schedule and cash constraints
EndsAs(other) ==
    /\ run_out.status = other.status
    /\ run_out.error = other.error
    /\ run_out.status = "returned"
         => /\ run_out.results.payment_sequence = other.results.payment_sequence
            /\ run_out.results.mode_configuration.cash_constraints
                   = other.results.mode_configuration.cash_constraints

\* C11: a run whose mode name is absent from available_modes works with the
\* configuration of 'balanced': its reserve ratio and usable_cash are those
\* of balanced, it ends as the run with mode 'balanced' on the same data
\* ends, and when it returns, its payment sequence and cash constraints are
\* those of that run.
C11_UnknownModeUsesBalanced ==
    ~ModeIsConfigured
        => /\ pc # "start"
                => /\ mode_config = BalancedConfig
                   /\ usable_cash =
                          RSub(R(AvailableCash(database)),
                               RMul(R(AvailableCash(database)),
                                    Get(BalancedConfig, "cash_reserve_ratio", <<1, 5>>)))
           /\ pc \in {"returned", "raised"} => EndsAs(BalancedRun)

\* an unknown mode on a configuration whose balanced mode reserves 40%, not
\* the 20% of a missing ratio, with one invoice paid and one deferred
C11_Witness ==
    /\ pc = "returned"
    /\ run_mode = "turbo"
    /\ Get(BalancedConfig, "cash_reserve_ratio", <<1, 5>>) = <<2, 5>>
    /\ run_out.results.mode_configuration.cash_constraints.reserve_ratio = <<2, 5>>
    /\ \E i, j \in 1..Len(payment_sequence) :
           /\ payment_sequence[i].status = "scheduled"
           /\ payment_sequence[j].status = "deferred"

\* C15: with no collaborator involved, a run over records with absent fields
\* (an invoice without payment_terms or due_date, a vendor unknown to every
\* file, a mode without name or reserve ratio, no financial parameters)
\* never raises.
C15_MissingDataNeverRaises == ~client => pc # "raised"

\* the same call with the narrative collaborator failing, so that the
\* fallback analysis record is used
RunWithDefaultAnalysis ==
    generate_payment_sequence(database, run_mode, client, ai_response, AIRaises, clock)

EntryDecisions(ps) ==
    [i \in 1..Len(ps) |-> <<ps[i].invoice_id, ps[i].status, ps[i].amount,
                            ps[i].discount_captured, ps[i].payment_timing>>]

SameDecisionsAs(other) ==
    /\ run_out.status = other.status
    /\ run_out.status = "returned"
         => EntryDecisions(run_out.results.payment_sequence)
                = EntryDecisions(other.results.payment_sequence)

\* C16: whatever the narrative collaborator answers, the run ends as it ends
\* with the default analysis record, and the status, amount,
\* discount_captured and payment_timing of every entry are the same.
C16_NarrativeNeverBlocks ==
    pc \in {"returned", "raised"} => SameDecisionsAs(RunWithDefaultAnalysis)

\* the allocator's admission loop over a sequence, with 20% of the cash
\* reserved
BaselineAdmission(sequence) ==
    AdmitAll(sequence, Len(sequence),
             RSub(R(AvailableCash(database)), RMul(R(AvailableCash(database)), <<1, 5>>)))

BaselineAgrees(result, admitted) ==
    admitted.status = "ok"
        => /\ result.total_savings = TotalCaptured(admitted.payment_sequence)
           /\ result.vendors_paid = Len(ScheduledPayments(admitted.payment_sequence))

\* the sequence holds the scored invoices, each once
IsReordering(sequence) ==
    /\ Len(sequence) = Len(scored_invoices)
    /\ \A i \in 1..Len(scored_invoices) :
           \E j \in 1..Len(sequence) : sequence[j] = scored_invoices[i]

AvalancheAgrees(sequence) ==
    /\ IsReordering(sequence)
    /\ \A i \in 1..(Len(sequence) - 1) :
           RLeq(sequence[i + 1].payment_terms.discount_rate,
                sequence[i].payment_terms.discount_rate)
    /\ BaselineAgrees(run_out.results.comparison_analysis.avalanche,
                      BaselineAdmission(sequence))

SnowballAgrees(sequence) ==
    /\ IsReordering(sequence)
    /\ \A i \in 1..(Len(sequence) - 1) :
           sequence[i].invoice.invoice_amount <= sequence[i + 1].invoice.invoice_amount
    /\ BaselineAgrees(run_out.results.comparison_analysis.snowball,
                      BaselineAdmission(sequence))

SameBaselinesAs(other) ==
    other.status = "returned"
        => /\ run_out.results.comparison_analysis.avalanche
                  = other.results.comparison_analysis.avalanche
           /\ run_out.results.comparison_analysis.snowball
                  = other.results.comparison_analysis.snowball

SuccessfulModes == {k \in 1..Len(mode_results) : IsSuccess(mode_results[k])}

\* the total of the discounts captured by the scheduled payments of entry k
SavingsOf(k) == TotalCaptured(ScheduledPayments(mode_results[k].results.payment_sequence))

\* the mean vrs_score of the scheduled payments of entry k, 0 when it has none
AverageVrsOf(k) ==
    IF ScheduledPayments(mode_results[k].results.payment_sequence) = <<>> THEN R(0)
    ELSE RDiv(TotalVrs(ScheduledPayments(mode_results[k].results.payment_sequence)),
              R(Len(ScheduledPayments(mode_results[k].results.payment_sequence))))

BestPerformersReported == compare_out.comparative_analysis.best_performers

\* C18: when compare_modes returns a comparison of at least one successful
\* mode, highest_savings names a successful mode, its savings are that
\* mode's total of captured discounts and no successful mode has more;
\* highest_vrs names a successful mode, its vrs_score is that mode's mean
\* vrs over its scheduled payments and no successful mode has a higher one.
C18_BestPerformers ==
    (pc = "done" /\ compare_out.status = "returned" /\ SuccessfulModes # {})
        => /\ \E k \in SuccessfulModes :
                  /\ mode_results[k].mode = BestPerformersReported.highest_savings.mode
                  /\ SavingsOf(k) = BestPerformersReported.highest_savings.savings
                  /\ \A j \in SuccessfulModes : RLeq(SavingsOf(j), SavingsOf(k))
           /\ \E k \in SuccessfulModes :
                  /\ mode_results[k].mode = BestPerformersReported.highest_vrs.mode
                  /\ AverageVrsOf(k) = BestPerformersReported.highest_vrs.vrs_score
                  /\ \A j \in SuccessfulModes : RLeq(AverageVrsOf(j), AverageVrsOf(k))

\* crisis_management then balanced: the second mode saves strictly more and
\* is the one reported, and the two modes differ in their mean vrs
C18_Witness ==
    /\ pc = "done"
    /\ compare_out.status = "returned"
    /\ modes = <<"crisis_management", "balanced">>
    /\ SuccessfulModes = {1, 2}
    /\ RLess(SavingsOf(1), SavingsOf(2))
    /\ BestPerformersReported.highest_savings.mode = "balanced"
    /\ AverageVrsOf(1) # AverageVrsOf(2)

\* the modes list in the order p
Permuted(p) == [i \in 1..Len(modes) |-> modes[p[i]]]

AsDict(d) == {d[i] : i \in 1..Len(d)}

\* the outputs hold the same per-mode results, the same comparison rows and
\* the same best performers
SameOutput(a, b) ==
    /\ a.status = b.status
    /\ a.status = "returned"
         => /\ AsDict(a.mode_results) = AsDict(b.mode_results)
            /\ AsDict(a.comparative_analysis.mode_comparison)
                   = AsDict(b.comparative_analysis.mode_comparison)
            /\ a.comparative_analysis.best_performers
                   = b.comparative_analysis.best_performers

RecordedAsAlone ==
    \A k \in 1..Len(mode_results) :
        mode_results[k]
            = RunModes(database, <<mode_results[k].mode>>, 1, client, AIRaises, AIRaises,
                       clock)[1]

\* C19: with no collaborator answering, the result recorded for each mode is
\* that of the mode run alone, and the output of compare_modes is the same
\* for every permutation of the modes list.
C19_OrderInsensitive ==
    (pc = "done" /\ ~client)
        => /\ RecordedAsAlone
           /\ \A p \in Permutations(1..Len(modes)) :
                  SameOutput(compare_out,
                             compare_modes(database, Permuted(p), client, AIRaises,
                                           AIRaises, clock))

(***************************************************************************)
(* Properties of the business value model (SpecBV), continued.             *)
(***************************************************************************)
\* invoice_amount * discount_rate / 100
DiscountValue ==
    RDiv(RMul(R(bv_in.invoice.invoice_amount), bv_in.payment_terms.discount_rate), R(100))

\* invoice_amount * (wacc / 365) * max(0, net_days - discount_days)
OpportunityCost ==
    RMul(RMul(R(bv_in.invoice.invoice_amount),
              RDiv(Get(database.financial_parameters, "wacc", <<2, 25>>), R(365))),
         IF bv_in.payment_terms.net_days > bv_in.payment_terms.discount_days
         THEN R(bv_in.payment_terms.net_days - bv_in.payment_terms.discount_days)
         ELSE R(0))

MultiplierProduct ==
    RMul(bv_out.business_impact_multiplier,
         RMul(bv_out.relationship_multiplier,
              RMul(bv_out.risk_multiplier,
                   RMul(bv_out.vrs_multiplier,
                        RMul(bv_out.urgency_multiplier, bv_out.market_multiplier)))))

\* C22: net_financial_benefit is the discount value less the opportunity
\* cost of paying max(0, net_days - discount_days) days early, floored at 0,
\* so never negative; final_business_value is its product with the six
\* multipliers, and is 0 when the discount is not worth its cost.
C22_BusinessValueFormula ==
    bv_pc = "returned"
        => /\ bv_out.net_financial_benefit =
                  (IF RLess(OpportunityCost, DiscountValue)
                   THEN RSub(DiscountValue, OpportunityCost) ELSE R(0))
           /\ RLeq(R(0), bv_out.net_financial_benefit)
           /\ bv_out.final_business_value
                  = RMul(bv_out.net_financial_benefit, MultiplierProduct)
           /\ RLeq(DiscountValue, OpportunityCost) => bv_out.final_business_value = R(0)

\* a discount of 0.5% against 30 days of capital at the default 8%: the
\* cost exceeds the discount, the window is live, and the value is 0
C22_Witness ==
    /\ bv_pc = "returned"
    /\ bv_in.payment_terms.discount_rate = <<1, 2>>
    /\ bv_in.payment_terms.discount_days = 15
    /\ bv_in.payment_terms.net_days = 45
    /\ RLess(R(0), DiscountValue)
    /\ RLess(DiscountValue, OpportunityCost)
    /\ RLess(R(0), MultiplierProduct)
    /\ bv_out.net_financial_benefit = R(0)
    /\ bv_out.final_business_value = R(0)

(***************************************************************************)
(* Properties of the terms interpreter (SpecTerms), continued.             *)
(***************************************************************************)
\* the interpreter answered from _fallback_payment_terms_parse
FallbackParseUsed ==
    /\ terms_pc = "done"
    /\ terms_out.fn = "parse_payment_terms_with_ai"
    /\ ~client \/ ai_response.call = "raises"

\* C26: for a text 'Net <n>' the deterministic fallback returns
\* discount_rate 0, discount_days 0, net_days n and payment_type net_term.
C26_NetTermsHaveNoDiscount ==
    \A n \in NetTexts :
        (FallbackParseUsed /\ raw_terms = Txt_Net \o n)
            => /\ terms_out.status = "returned"
               /\ terms_out.terms.discount_rate = R(0)
               /\ terms_out.terms.discount_days = 0
               /\ terms_out.terms.net_days = IntOf(n)
               /\ terms_out.terms.payment_type = "net_term"

(***************************************************************************)
(* Properties of the admission loop and of the schedule (Spec).            *)
(***************************************************************************)
\* C23: every step of the admission loop leaves the entries already made as
\* they are and adds at most one; the invoice it takes is scheduled exactly
\* when its amount is within the remaining cash, whatever was deferred
\* before it; and the sequence returned is the one the loop left, deferred
\* entries included.
C23_SinglePass ==
    [][pc = "admit"
        => /\ Len(payment_sequence') \in {Len(payment_sequence), Len(payment_sequence) + 1}
           /\ \A k \in 1..Len(payment_sequence) : payment_sequence'[k] = payment_sequence[k]
           /\ Len(payment_sequence') = Len(payment_sequence) + 1
                => (payment_sequence'[Len(payment_sequence) + 1].status = "scheduled"
                        <=> RLeq(R(sorted_invoices[Len(payment_sequence) + 1].invoice
                                       .invoice_amount),
                                 remaining_cash))
           /\ pc' = "returned"
                => run_out'.results.payment_sequence = payment_sequence]_vars

\* a run that returned with its most valuable invoice deferred and an
\* invoice of lower value after it scheduled
C23_Witness ==
    /\ pc = "returned"
    /\ Len(payment_sequence) >= 2
    /\ payment_sequence[1].status = "deferred"
    /\ \E k \in 2..Len(payment_sequence) :
           /\ payment_sequence[k].status = "scheduled"
           /\ RLess(payment_sequence[k].business_value, payment_sequence[1].business_value)
    /\ run_out.results.payment_sequence[1].status = "deferred"

\* every invoice of the batch is a full Invoice record
FullInvoiceRecords ==
    \A b \in 1..Len(InvoiceBatch(database)) : "due_date" \in DOMAIN InvoiceBatch(database)[b]

\* ps has one entry for each invoice of the batch, scheduled or deferred,
\* numbered 1..n in output order
CompleteSchedule(ps) ==
    /\ Len(ps) = Len(InvoiceBatch(database))
    /\ \A b \in 1..Len(InvoiceBatch(database)) :
           Cardinality({i \in 1..Len(ps) :
                           /\ ps[i].invoice_id = InvoiceBatch(database)[b].invoice_id
                           /\ ps[i].amount = InvoiceBatch(database)[b].invoice_amount}) = 1
    /\ \A i \in 1..Len(ps) :
           /\ ps[i].status \in {"scheduled", "deferred"}
           /\ ps[i].position = i

ExpiredScheduled(ps) ==
    {i \in 1..Len(ps) :
        /\ ps[i].status = "scheduled"
        /\ \E j \in 1..Len(scored_invoices) :
               /\ scored_invoices[j].invoice.invoice_id = ps[i].invoice_id
               /\ scored_invoices[j].business_value.urgency_multiplier = R(0)}

RECURSIVE CapturedOutside(_, _, _)
\* the discounts captured by the first k entries of ps outside the set skip
CapturedOutside(ps, k, skip) ==
    IF k = 0 THEN R(0)
    ELSE RAdd(CapturedOutside(ps, k - 1, skip),
              IF k \in skip \/ ps[k].status # "scheduled" THEN R(0)
              ELSE ps[k].discount_captured)

\* C25: in a run that returned, a scheduled entry whose discount window had
\* expired at evaluation time has discount_captured 0, and the savings of
\* the executive summary count only the discounts of the other scheduled
\* entries.
C25_ExpiredDiscountNotCredited ==
    pc = "returned"
        => /\ \A i \in ExpiredScheduled(run_out.results.payment_sequence) :
                  run_out.results.payment_sequence[i].discount_captured = R(0)
           /\ run_out.results.executive_summary.dashboard_metrics.potential_savings
                  = CapturedOutside(run_out.results.payment_sequence,
                                    Len(run_out.results.payment_sequence),
                                    ExpiredScheduled(run_out.results.payment_sequence))

\* C27: in a run that returned, the payment_timing of a scheduled entry is
\* not before the issue_date of its invoice and not after issue_date +
\* discount_days.
C27_PaymentTimingInWindow ==
    pc = "returned"
        => \A i \in 1..Len(run_out.results.payment_sequence) :
               \A j \in 1..Len(scored_invoices) :
                   (/\ run_out.results.payment_sequence[i].status = "scheduled"
                    /\ scored_invoices[j].invoice.invoice_id
                           = run_out.results.payment_sequence[i].invoice_id)
                       => /\ strptime(scored_invoices[j].invoice.issue_date)
                                 <= strptime(run_out.results.payment_sequence[i].payment_timing)
                          /\ strptime(run_out.results.payment_sequence[i].payment_timing)
                                 <= strptime(scored_invoices[j].invoice.issue_date)
                                        + scored_invoices[j].payment_terms.discount_days

(***************************************************************************)
(* Properties of the result of compare_modes (SpecCompare).                *)
(***************************************************************************)
\* C29: when compare_modes returns, modes_successful + modes_failed =
\* modes_requested, for every list of mode names.
C29_SummaryAddsUp ==
    (pc = "done" /\ compare_out.status = "returned")
        => compare_out.processing_summary.modes_successful
               + compare_out.processing_summary.modes_failed
           = compare_out.processing_summary.modes_requested

\* C30: when every run of the loop returned, compare_modes returns a result.
C30_ComparisonNeverRaises ==
    (pc = "done" /\ \A k \in 1..Len(mode_results) : IsSuccess(mode_results[k]))
        => compare_out.status = "returned"

(***************************************************************************)
(* Properties of the spend percentile (SpecPercentile).                     *)
(***************************************************************************)
KnownVendors == DOMAIN database.vendor_master

\* the annual spend recorded for v, 0 when there is none
SpendOf(v) ==
    IF v \notin KnownVendors THEN 0
    ELSE IF "contract_details" \notin DOMAIN database.vendor_master[v] THEN 0
    ELSE IF "annual_contract_value" \notin DOMAIN database.vendor_master[v].contract_details
    THEN 0
    ELSE database.vendor_master[v].contract_details.annual_contract_value

NotAbove(v) == {w \in KnownVendors : SpendOf(w) <= SpendOf(v)}

\* C21: the spend percentile of the scored vendor is 100 times the share of
\* the known vendors whose annual spend is at most its own, a missing spend
\* counting as 0; it lies in [0, 100]; and it is 50 when no vendor is known.
C21_SpendPercentile ==
    bv_pc \in {"call", "returned"}
        => /\ KnownVendors = {} => vrs_out.total_value_score = R(50)
           /\ KnownVendors # {}
                => RMul(vrs_out.total_value_score, R(Cardinality(KnownVendors)))
                       = R(100 * Cardinality(NotAbove(bv_in.vendor_id)))
           /\ RLeq(R(0), vrs_out.total_value_score)
           /\ RLeq(vrs_out.total_value_score, R(100))

\* V2, the second of four vendors by spend, two of them spending more: half
\* of the vendors spend no more than V2
C21_Witness ==
    /\ bv_pc = "call"
    /\ bv_in.vendor_id = "V2"
    /\ Cardinality(KnownVendors) = 4
    /\ NotAbove("V2") = {"V1", "V2"}
    /\ vrs_out.total_value_score = R(50)

(***************************************************************************)
(* Properties of _load_all_data (SpecLoad).                                *)
(***************************************************************************)
\* C28: loading never raises, and when it has returned every required file
\* has its own key in the database, holding the content of the file when the
\* file was read and {} when it was missing or not JSON.
C28_LoadIsolatesFailures ==
    /\ load_pc # "raised"
    /\ load_pc = "returned"
         => \A i \in 1..Len(required_files) :
                /\ required_files[i].stem \in DOMAIN database
                /\ database[required_files[i].stem] =
                       (IF files[i] = "ok" THEN ContentOf(required_files[i]) ELSE EmptyDict)

====
